---- MODULE Spec2Model ----
(***************************************************************************)
(* Time-locked media release: the viewer hook's release store              *)
(* (useMediaReleaseViewer), the reveal scanner (fetchRevealedPayload,      *)
(* getLogsChunked), the creation path (createMediaRelease, handleCreate),  *)
(* the viewer page (handleReleaseSelect) and the contract                  *)
(* PublicTimedMediaRelease they talk to.                                   *)
(***************************************************************************)
EXTENDS Integers, Sequences, FiniteSets, TLC

VARIABLES
    height,            \* chain: current block number
    contractReleases,  \* chain: mapping(uint256 => Release) of the contract
    chainLogs,         \* chain: the contract's event log, in emission order
    localStorage,      \* browser: the tblock hint and the release_<id> entries
    creating,          \* creation page: the createMediaRelease call in progress
    releases,          \* viewer hook: useState<MediaReleaseInfo[]>
    pending,           \* viewer hook: async calls that have read and not yet written
    selectedRelease,   \* viewer page: useState selectedRelease
    decryptedMetadata, \* viewer page: useState decryptedMetadata
    scan,              \* one call under study, as it ran: scanner, fetch, tick, effect, retry
    trial,             \* three updates of one request id, applied in some order
    codec              \* one file: encryptBytes, the gateway, the two decoders

vars == <<height, contractReleases, chainLogs, localStorage, creating, releases,
          pending, selectedRelease, decryptedMetadata, scan, trial, codec>>

chainVars == <<height, contractReleases, chainLogs>>
viewVars == <<selectedRelease, decryptedMetadata>>

-----------------------------------------------------------------------------
(* Bounds of the model *)

MaxReleases == 1
MaxAdvances == 2
MaxPending == 2
MaxBlocksAhead == 1
MaxId == 2
MaxBlock == 1

(* Program constants *)

PREFETCH_BLOCKS_BEFORE == 12
REVEAL_SEARCH_FORWARD == 200
DEFAULT_GETLOGS_CHUNK == 10
RECENT_WINDOW == 500
CREATED_SCAN_BACK == 10
CREATED_SCAN_CHUNK == 10
RECENT_CREATION_BLOCKS == 10

-----------------------------------------------------------------------------
(* Values *)

\* The request ids the chain hands out, and the ids the store is tried with.
Ids == 1..MaxReleases
StoreIds == 1..MaxId

\* An optional value: undefined is the empty tuple, a defined value v is <<v>>.
Undefined == <<>>
Some(v) == <<v>>
Null == <<>>

\* The connected wallet address and address(0).
UserAddress == "0xUser"
ZeroAddress == "0x0"

\* ethers.zeroPadValue(ethers.toBeHex(requestId), 32): the 32-byte word of a uint256.
Uint256Word(n) == <<"word", n>>

\* ethers.zeroPadValue(address, 32): the 32-byte word of a 160-bit address. No
\* request id handed out by the sequential request counter reaches a wallet's
\* address, so the word is one that no Uint256Word of an id equals.
AddressWord(a) == <<"word", MaxReleases + MaxId + 1 + (IF a = ZeroAddress THEN 0 ELSE 1)>>

\* ethers.id(signature): topic 0 of an event.
EventTopic(signature) == <<"topic0", signature>>

\* ethers.keccak256(ethers.toUtf8Bytes(s)): injective on the locators of the model.
Keccak256(s) == <<"0x", "keccak256", s>>
LocalSeedHash == <<"0x">>
ZeroHash == <<"0x", "00">>

\* The locator and key of the release with request id n, and a second locator.
CidOf(n) == <<"cid", n>>
KeyOf(n) == <<"key", n>>
OtherCid == <<"cid", 0>>

\* JSON.stringify of an object: its members, in insertion order.
JsonStringify(members) == <<"json", members>>
\* ethers.toUtf8Bytes / ethers.hexlify / ethers.toUtf8String
ToUtf8Bytes(text) == <<"utf8", text>>
Hexlify(bytes) == <<"0x", bytes>>
ToUtf8String(hex) == hex[2][2]

\* The member named name of a parsed JSON object, or undefined.
RECURSIVE JsonMember(_, _)
JsonMember(members, name) ==
    IF members = <<>> THEN Undefined
    ELSE IF Head(members)[1] = name THEN Some(Head(members)[2])
    ELSE JsonMember(Tail(members), name)

\* A text that is not JSON: a bare key.
PlainText(key) == <<"text", key>>

\* JSON.parse of a text inside try/catch: the members of the object, none
\* when the text is not JSON and the catch sets the payload to null.
JsonParse(text) == IF text[1] = "json" THEN text[2] ELSE <<>>

-----------------------------------------------------------------------------
(* The contract PublicTimedMediaRelease *)

\* The default value of a mapping slot: what metaOf returns for an unknown id.
ZeroRelease ==
    [creator |-> ZeroAddress, fileCidHash |-> ZeroHash, unlockAtBlock |-> 0,
     isRevealed |-> FALSE, revealed |-> Undefined, cipher |-> Undefined]

\* event Created(uint256 indexed requestId, address indexed creator, bytes32, uint40)
CreatedLog(requestId, creator, fileCidHash, unlockAtBlock, blockNumber) ==
    [name |-> "Created",
     topics |-> <<EventTopic("Created(uint256,address,bytes32,uint40)"),
                  Uint256Word(requestId), AddressWord(creator)>>,
     requestId |-> requestId, creator |-> creator, fileCidHash |-> fileCidHash,
     unlockAtBlock |-> unlockAtBlock, payload |-> Undefined,
     blockNumber |-> blockNumber]

\* event Revealed(uint256 indexed requestId, bytes payload)
RevealedLog(requestId, payload, blockNumber) ==
    [name |-> "Revealed",
     topics |-> <<EventTopic("Revealed(uint256,bytes)"), Uint256Word(requestId)>>,
     requestId |-> requestId, creator |-> ZeroAddress, fileCidHash |-> ZeroHash,
     unlockAtBlock |-> 0, payload |-> Some(payload),
     blockNumber |-> blockNumber]

\* The request id the blocklock sender hands out next.
NextRequestId == Cardinality({i \in Ids : contractReleases[i].creator # ZeroAddress}) + 1

\* metaOf(requestId)
MetaOf(requestId) ==
    LET r == IF requestId \in Ids THEN contractReleases[requestId] ELSE ZeroRelease
    IN  [creator |-> r.creator, fileCidHash |-> r.fileCidHash,
         unlockAtBlock |-> r.unlockAtBlock, isRevealed |-> r.isRevealed]

-----------------------------------------------------------------------------
(* The chain as the providers report it *)

Min(a, b) == IF a <= b THEN a ELSE b
Max(a, b) == IF a >= b THEN a ELSE b

\* Whether a log passes a getLogs filter: every topic the filter gives must match.
LogMatches(log, filter) ==
    \A i \in 1..Len(filter.topics) :
        i <= Len(log.topics) /\ log.topics[i] = filter.topics[i]

\* provider.getLogs({...filter, fromBlock, toBlock})
GetLogs(filter, fromBlock, toBlock) ==
    SelectSeq(chainLogs,
              LAMBDA l : /\ fromBlock <= l.blockNumber
                         /\ l.blockNumber <= toBlock
                         /\ LogMatches(l, filter))

\* A chunk that ends one block late, on the first block of the next one.
ChunkEndOneLate(start, chunkSize, toBlock) == Min(start + chunkSize, toBlock)

\* The last block of the chunk that begins at start.
ChunkEnd(start, chunkSize, toBlock) == Min(start + chunkSize - 1, toBlock)

\* getLogsChunked: the logs of the chunks whose getLogs call did not reject;
\* failing is the set of chunk starts whose call rejects.
RECURSIVE ChunkLoop(_, _, _, _, _, _)
ChunkLoop(filter, start, toBlock, chunkSize, failing, logs) ==
    IF start > toBlock THEN logs
    ELSE LET end == ChunkEnd(start, chunkSize, toBlock)
             chunkLogs == IF start \in failing THEN <<>>
                          ELSE GetLogs(filter, start, end)
         IN  ChunkLoop(filter, start + chunkSize, toBlock, chunkSize, failing,
                       logs \o chunkLogs)

GetLogsChunked(filter, fromBlock, toBlock, chunkSize, failing) ==
    ChunkLoop(filter, fromBlock, toBlock, chunkSize, failing, <<>>)

\* A window around the target that is not cut at the chain height.
RevealWindowPastHead(currentBlock, targetBlock) ==
    IF targetBlock = Undefined
    THEN <<Max(0, currentBlock - RECENT_WINDOW), currentBlock>>
    ELSE <<Max(0, targetBlock[1] - PREFETCH_BLOCKS_BEFORE),
           targetBlock[1] + REVEAL_SEARCH_FORWARD>>

\* The window fetchRevealedPayload scans, given the chain height it read and
\* the optional target block: <<fromBlock, toBlock>>.
RevealWindow(currentBlock, targetBlock) ==
    IF targetBlock = Undefined
    THEN <<Max(0, currentBlock - RECENT_WINDOW), currentBlock>>
    ELSE <<Max(0, targetBlock[1] - PREFETCH_BLOCKS_BEFORE),
           Min(currentBlock, targetBlock[1] + REVEAL_SEARCH_FORWARD)>>

\* The guard of fetchRevealedPayload: the target is still too far ahead.
NotYet(currentBlock, targetBlock) ==
    /\ targetBlock # Undefined
    /\ currentBlock < targetBlock[1] - PREFETCH_BLOCKS_BEFORE

\* A scan that ignores the target block and always takes the recent window.
ScanPlanRecentOnly(currentBlock, targetBlock) ==
    <<RevealWindow(currentBlock, Undefined)>>

\* What fetchRevealedPayload decides before it fetches: null when it returns
\* null at once (target too far ahead, or empty window), else the window.
ScanPlan(currentBlock, targetBlock) ==
    IF NotYet(currentBlock, targetBlock) THEN Null
    ELSE LET w == RevealWindow(currentBlock, targetBlock)
         IN  IF w[1] > w[2] THEN Null ELSE <<w>>

\* A loop that ends at the first log it cannot use.
FirstLogOnly(logs) ==
    IF logs = <<>> THEN Null
    ELSE IF Head(logs).name = "Revealed" /\ Head(logs).payload # Undefined
         THEN <<Head(logs)>>
         ELSE Null

\* The loop over the fetched logs: the payload of the first Revealed log that
\* carries one, or null.
RECURSIVE FirstRevealed(_)
FirstRevealed(logs) ==
    IF logs = <<>> THEN Null
    ELSE IF Head(logs).name = "Revealed" /\ Head(logs).payload # Undefined
         THEN <<Head(logs)>>
         ELSE FirstRevealed(Tail(logs))

RevealedFilter(requestId) ==
    [topics |-> <<EventTopic("Revealed(uint256,bytes)"), Uint256Word(requestId)>>]

\* fetchRevealedPayload(requestId, targetBlock): the log it returns the payload
\* of, or null. failing: the chunk starts whose getLogs call rejects.
FetchRevealedLog(requestId, targetBlock, failing) ==
    LET currentBlock == height
        plan == ScanPlan(currentBlock, targetBlock)
    IN  IF plan = Null THEN Null
        ELSE FirstRevealed(GetLogsChunked(RevealedFilter(requestId),
                                          plan[1][1], plan[1][2],
                                          DEFAULT_GETLOGS_CHUNK, failing))

FetchRevealedPayload(requestId, targetBlock, failing) ==
    LET l == FetchRevealedLog(requestId, targetBlock, failing)
    IN  IF l = Null THEN Null ELSE l[1].payload

-----------------------------------------------------------------------------
(* The release store of useMediaReleaseViewer *)

\* { ...a, ...b }: every key of b overwrites, an undefined value included.
Spread(a, b) ==
    [k \in (DOMAIN a) \cup (DOMAIN b) |-> IF k \in DOMAIN b THEN b[k] ELSE a[k]]

\* A comparator that orders the other way round.
CompareAscending(a, b) == a.requestId - b.requestId

\* The comparator of the two sorts: Number(b.requestId - a.requestId).
CompareReleases(a, b) == b.requestId - a.requestId

\* Array.prototype.sort with that comparator (stable): x goes behind every
\* element the comparator does not put after it.
RECURSIVE InsertSorted(_, _)
InsertSorted(x, s) ==
    IF s = <<>> THEN <<x>>
    ELSE IF CompareReleases(Head(s), x) <= 0
         THEN <<Head(s)>> \o InsertSorted(x, Tail(s))
         ELSE <<x>> \o s

RECURSIVE SortFrom(_, _)
SortFrom(s, acc) ==
    IF s = <<>> THEN acc ELSE SortFrom(Tail(s), InsertSorted(Head(s), acc))

SortReleases(s) == SortFrom(s, <<>>)

RequestIds(s) == {s[i].requestId : i \in 1..Len(s)}

\* The release_<id> entries of localStorage, in key order.
RECURSIVE EntriesFrom(_, _)
EntriesFrom(entries, keys) ==
    IF keys = {} THEN <<>>
    ELSE LET k == CHOOSE x \in keys : \A y \in keys : x <= y
         IN  <<entries[k]>> \o EntriesFrom(entries, keys \ {k})

\* A seed that takes its unlock block from the wrong member of the entry.
LocalInfoFromCreatedAt(entry) ==
    [requestId |-> entry.requestId, creator |-> UserAddress,
     fileCidHash |-> LocalSeedHash, unlockAtBlock |-> entry.createdAtBlock,
     isRevealed |-> FALSE, revealed |-> Undefined, currentBlock |-> Undefined,
     isUnlocked |-> FALSE]

\* The record loadFromLocalStorage builds from one entry.
LocalInfo(entry) ==
    [requestId |-> entry.requestId, creator |-> UserAddress,
     fileCidHash |-> LocalSeedHash, unlockAtBlock |-> entry.targetBlock,
     isRevealed |-> FALSE, revealed |-> Undefined, currentBlock |-> Undefined,
     isUnlocked |-> FALSE]

LocalReleasesOf(rel) ==
    LET es == EntriesFrom(rel, DOMAIN rel)
    IN  [i \in 1..Len(es) |-> LocalInfo(es[i])]

\* An updater that adds every local record, known id or not.
MergeLocalKeepingAll(prev, localReleases) == SortReleases(localReleases \o prev)

\* The setReleases updater of loadFromLocalStorage.
MergeLocal(prev, localReleases) ==
    LET existingIds == RequestIds(prev)
        newReleases == SelectSeq(localReleases,
                                 LAMBDA r : r.requestId \notin existingIds)
    IN  SortReleases(newReleases \o prev)

\* loadFromLocalStorage on the entries rel: setReleases only when there are some.
LoadedReleases(prev, rel) ==
    IF Len(LocalReleasesOf(rel)) > 0 THEN MergeLocal(prev, LocalReleasesOf(rel))
    ELSE prev

\* The setReleases updater of fetchReleases: merge by id, then sort.
RECURSIVE MergeItems(_, _)
MergeItems(byId, items) ==
    IF items = <<>> THEN byId
    ELSE LET item == Head(items)
             at == {i \in 1..Len(byId) : byId[i].requestId = item.requestId}
             merged == IF at = {} THEN Append(byId, item)
                       ELSE LET i == CHOOSE j \in at : TRUE
                            IN  [byId EXCEPT ![i] = Spread(byId[i], item)]
         IN  MergeItems(merged, Tail(items))

\* An updater that shows the items found and drops the records it had.
MergeFetchedDroppingOld(prev, newItems) == SortReleases(newItems)

\* An updater that adds the items without looking for their ids.
MergeFetchedAppending(prev, newItems) == SortReleases(prev \o newItems)

MergeFetched(prev, newItems) == SortReleases(MergeItems(prev, newItems))

\* The setReleases updater of checkReleaseStatus.
MergeChecked(prev, requestId, release) ==
    [i \in 1..Len(prev) |->
        IF prev[i].requestId = requestId THEN Spread(prev[i], release) ELSE prev[i]]

\* The setReleases updater of updateCurrentBlock.
MergeBlock(prev, currentBlock) ==
    [i \in 1..Len(prev) |-> [prev[i] EXCEPT !.currentBlock = Some(currentBlock)]]

\* The record getReleaseById returns, from what its reads returned: metaOf,
\* getBlockNumber and fetchRevealedPayload (null when it was not called, found
\* nothing or threw).
ReleaseRecord(requestId, releaseInfo, currentBlock, revealedData) ==
    [requestId |-> requestId, creator |-> releaseInfo.creator,
     fileCidHash |-> releaseInfo.fileCidHash,
     unlockAtBlock |-> releaseInfo.unlockAtBlock,
     isRevealed |-> releaseInfo.isRevealed,
     revealed |-> IF revealedData = Null THEN Undefined ELSE revealedData,
     currentBlock |-> Some(currentBlock),
     isUnlocked |-> currentBlock >= releaseInfo.unlockAtBlock]

\* getReleaseById, its reads done at once. failing: the chunk starts whose
\* getLogs call rejects.
GetReleaseById(requestId, failing) ==
    LET releaseInfo == MetaOf(requestId)
        revealedData == IF releaseInfo.isRevealed
                        THEN FetchRevealedPayload(requestId, Undefined, failing)
                        ELSE Null
    IN  ReleaseRecord(requestId, releaseInfo, height, revealedData)

\* The filter fetchReleases builds: topic 0 of Created, then the padded address.
CreatedFilter(address) ==
    [topics |-> <<EventTopic("Created(uint256,address,bytes32,uint40)"),
                  AddressWord(address)>>]

\* Number(localStorage.getItem("tblock")): 0 when the key is absent.
TBlockHint == IF localStorage.tblock = Undefined THEN 0 ELSE localStorage.tblock[1]

\* The record fetchReleases builds from one Created log, from what its reads
\* returned: getBlockNumber, metaOf (read only for a log of the last blocks)
\* and fetchRevealedPayload.
ItemRecord(log, currentBlock, metaIsRevealed, revealedData) ==
    LET recent == currentBlock - log.blockNumber <= RECENT_CREATION_BLOCKS
        isRevealed == recent /\ metaIsRevealed
    IN  [requestId |-> log.requestId, creator |-> UserAddress,
         fileCidHash |-> log.fileCidHash, unlockAtBlock |-> log.unlockAtBlock,
         isRevealed |-> isRevealed,
         revealed |-> IF isRevealed /\ revealedData # Null
                      THEN revealedData ELSE Undefined,
         currentBlock |-> Some(currentBlock),
         isUnlocked |-> currentBlock >= log.unlockAtBlock]

FetchedItem(log, currentBlock, failing) ==
    LET meta == MetaOf(log.requestId)
        revealedData == IF meta.isRevealed
                        THEN FetchRevealedPayload(log.requestId, Undefined, failing)
                        ELSE Null
    IN  ItemRecord(log, currentBlock, meta.isRevealed, revealedData)

\* The items fetchReleases merges, its reads done at once.
FetchedItems(failing) ==
    LET currentBlock == height
        fromBlock == Max(0, TBlockHint - CREATED_SCAN_BACK)
        toBlock == TBlockHint
        logs == GetLogsChunked(CreatedFilter(UserAddress), fromBlock, toBlock,
                               CREATED_SCAN_CHUNK, failing)
    IN  [i \in 1..Len(logs) |-> FetchedItem(logs[i], currentBlock, failing)]

-----------------------------------------------------------------------------
(* Async calls of the hook: a call reads the chain, then writes the store *)

PendingCheck(requestId, release) ==
    [op |-> "check", requestId |-> requestId, items |-> <<release>>, currentBlock |-> 0]
PendingFetch(items) ==
    [op |-> "fetch", requestId |-> 0, items |-> items, currentBlock |-> 0]
PendingBlock(currentBlock) ==
    [op |-> "block", requestId |-> 0, items |-> <<>>, currentBlock |-> currentBlock]

\* How the providers answer one call: every read succeeds, every getLogs call
\* rejects, or the first read rejects.
RpcModes == {"ok", "logsFail", "down"}
FailingChunks(rpc) == IF rpc = "logsFail" THEN 0..height ELSE {}

\* The write fetchRevealedPayload makes when it returns a payload.
NoteLastBlock(log) ==
    IF log = Null THEN localStorage
    ELSE [localStorage EXCEPT !.lastBlock = Some(log[1].blockNumber)]

-----------------------------------------------------------------------------
(* Actions: the chain *)

AdvanceSteps(h) == (h \div (RECENT_WINDOW + 1)) + (h % (RECENT_WINDOW + 1))
Jumps == {1, RECENT_WINDOW + 1}

\* The chain grows by d blocks.
AdvanceChain(d) ==
    /\ AdvanceSteps(height) < MaxAdvances
    /\ height' = height + d
    /\ UNCHANGED <<contractReleases, chainLogs, localStorage, creating, releases,
                   pending, selectedRelease, decryptedMetadata, scan, trial, codec>>

\* A payload that carries another locator than the one that is hashed.
RevealPayloadOtherLocator(key, fileCid) ==
    Hexlify(ToUtf8Bytes(JsonStringify(<<<<"k", key>>, <<"c", OtherCid>>>>)))

\* The reveal payload createMediaRelease builds: { k, c } and the optional members.
RevealPayload(key, fileCid) ==
    Hexlify(ToUtf8Bytes(JsonStringify(<<<<"k", key>>, <<"c", fileCid>>>>)))

\* createMediaRelease up to the transaction it sends.
CreateMediaReleaseStart(blocksAhead) ==
    /\ creating = Null
    /\ NextRequestId <= MaxReleases
    /\ LET currentBlock == height
           targetBlock == currentBlock + blocksAhead
           fileCid == CidOf(NextRequestId)
       IN  creating' = <<[stage |-> "sent", currentBlock |-> currentBlock,
                          targetBlock |-> targetBlock, requestId |-> 0,
                          fileCidHash |-> Keccak256(fileCid),
                          payload |-> RevealPayload(KeyOf(NextRequestId), fileCid)]>>
    /\ UNCHANGED <<height, contractReleases, chainLogs, localStorage, releases,
                   pending, selectedRelease, decryptedMetadata, scan, trial, codec>>

\* createReleaseWithDirectFunding: the transaction is mined.
CreateReleaseWithDirectFunding ==
    /\ creating # Null
    /\ creating[1].stage = "sent"
    /\ NextRequestId <= MaxReleases
    /\ LET c == creating[1]
           requestId == NextRequestId
       IN  /\ contractReleases' =
                  [contractReleases EXCEPT ![requestId] =
                      [creator |-> UserAddress, fileCidHash |-> c.fileCidHash,
                       unlockAtBlock |-> c.targetBlock, isRevealed |-> FALSE,
                       revealed |-> Undefined, cipher |-> Some(c.payload)]]
           /\ chainLogs' = Append(chainLogs,
                                  CreatedLog(requestId, UserAddress, c.fileCidHash,
                                             c.targetBlock, height))
           /\ creating' = <<[c EXCEPT !.stage = "mined", !.requestId = requestId]>>
    /\ UNCHANGED <<height, localStorage, releases, pending, selectedRelease,
                   decryptedMetadata, scan, trial, codec>>

\* tx.wait() returns, createMediaRelease returns its result, and handleCreate
\* writes tblock and the release_<id> entry.
HandleCreate ==
    /\ creating # Null
    /\ creating[1].stage = "mined"
    /\ LET c == creating[1]
           entry == [requestId |-> c.requestId, targetBlock |-> c.targetBlock,
                     createdAtBlock |-> c.currentBlock]
       IN  localStorage' =
               [localStorage EXCEPT
                   !.tblock = Some(c.targetBlock),
                   !.rel = [k \in (DOMAIN localStorage.rel) \cup {c.requestId} |->
                               IF k = c.requestId THEN entry ELSE localStorage.rel[k]]]
    /\ creating' = Null
    /\ UNCHANGED <<height, contractReleases, chainLogs, releases, pending,
                   selectedRelease, decryptedMetadata, scan, trial, codec>>

\* A callback that is refused only for an unknown request.
CallbackRevertsUnknownOnly(requestId) ==
    contractReleases[requestId].creator = ZeroAddress

\* The two require statements of _onBlocklockReceived.
CallbackReverts(requestId) ==
    \/ contractReleases[requestId].creator = ZeroAddress
    \/ contractReleases[requestId].isRevealed

\* _decrypt(_decryptionKeyCipher[_requestId], decryptionKey): the plaintext of
\* the stored ciphertext, no bytes for a slot that was deleted.
DecryptStored(cipher) == IF cipher = Undefined THEN <<>> ELSE cipher[1]

\* _onBlocklockReceived: the oracle's callback. A callback that fails a
\* require reverts; the oracle delivers the key at or after the unlock block.
OnBlocklockReceived(requestId) ==
    IF CallbackReverts(requestId)
    THEN UNCHANGED vars
    ELSE /\ height >= contractReleases[requestId].unlockAtBlock
         /\ LET payload == DecryptStored(contractReleases[requestId].cipher)
            IN  /\ contractReleases' =
                       [contractReleases EXCEPT ![requestId].isRevealed = TRUE,
                                                ![requestId].revealed = Some(payload),
                                                ![requestId].cipher = Undefined]
                /\ chainLogs' = Append(chainLogs,
                                       RevealedLog(requestId, payload, height))
         /\ UNCHANGED <<height, localStorage, creating, releases, pending,
                        selectedRelease, decryptedMetadata, scan, trial, codec>>

-----------------------------------------------------------------------------
(* Actions: the viewer hook *)

\* loadFromLocalStorage, run by the effect.
LoadFromLocalStorage ==
    /\ releases' = LoadedReleases(releases, localStorage.rel)
    /\ UNCHANGED <<height, contractReleases, chainLogs, localStorage, creating,
                   pending, selectedRelease, decryptedMetadata, scan, trial, codec>>

\* checkReleaseStatus up to the setReleases call: getReleaseById reads.
CheckReleaseStatusRead(requestId, rpc) ==
    /\ requestId \in RequestIds(releases)
    /\ Cardinality(pending) < MaxPending
    /\ IF rpc = "down"
       THEN UNCHANGED <<pending, localStorage>>
       ELSE /\ pending' = pending \cup
                    {PendingCheck(requestId, GetReleaseById(requestId, FailingChunks(rpc)))}
            /\ localStorage' =
                   IF MetaOf(requestId).isRevealed
                   THEN NoteLastBlock(FetchRevealedLog(requestId, Undefined,
                                                       FailingChunks(rpc)))
                   ELSE localStorage
    /\ UNCHANGED <<height, contractReleases, chainLogs, creating, releases,
                   selectedRelease, decryptedMetadata, scan, trial, codec>>

\* The Revealed logs the items of fetchReleases returned a payload from.
FetchedReveals(items, failing) ==
    {FetchRevealedLog(items[i].requestId, Undefined, failing) :
        i \in {j \in 1..Len(items) : items[j].isRevealed}} \ {Null}

\* fetchReleases up to the setReleases call.
FetchReleasesRead(rpc) ==
    /\ Cardinality(pending) < MaxPending
    /\ IF rpc = "down"
       THEN UNCHANGED <<pending, localStorage>>
       ELSE LET items == FetchedItems(FailingChunks(rpc))
                found == FetchedReveals(items, FailingChunks(rpc))
            IN  /\ pending' = pending \cup {PendingFetch(items)}
                /\ localStorage' \in IF found = {} THEN {localStorage}
                                     ELSE {NoteLastBlock(l) : l \in found}
    /\ UNCHANGED <<height, contractReleases, chainLogs, creating,
                   releases, selectedRelease, decryptedMetadata, scan, trial, codec>>

\* updateCurrentBlock up to the setReleases call.
UpdateCurrentBlockRead(rpc) ==
    /\ Cardinality(pending) < MaxPending
    /\ IF rpc = "down"
       THEN UNCHANGED pending
       ELSE pending' = pending \cup {PendingBlock(height)}
    /\ UNCHANGED <<height, contractReleases, chainLogs, localStorage, creating,
                   releases, selectedRelease, decryptedMetadata, scan, trial, codec>>

\* The setReleases call of a pending call runs.
ApplyUpdate(prev, p) ==
    CASE p.op = "check" -> MergeChecked(prev, p.requestId, p.items[1])
      [] p.op = "fetch" -> MergeFetched(prev, p.items)
      [] p.op = "block" -> MergeBlock(prev, p.currentBlock)

ApplyPending(p) == ApplyUpdate(releases, p)

SetReleases(p) ==
    /\ p \in pending
    /\ pending' = pending \ {p}
    /\ releases' = ApplyPending(p)
    /\ UNCHANGED <<height, contractReleases, chainLogs, localStorage, creating,
                   selectedRelease, decryptedMetadata, scan, trial, codec>>

-----------------------------------------------------------------------------
(* Actions: the viewer page *)

\* A JavaScript truthiness test of an optional string: defined and not empty.
Truthy(opt) == opt # Undefined /\ opt[1] # <<>>

\* A default that wins over the value that was given.
AlwaysDefault(opt, default) == default

OrElse(opt, default) == IF Truthy(opt) THEN opt[1] ELSE default

\* decryptMetadata(revealedData, release): the metadata, or null when it throws.
\* release is optional; the hash is compared only when it is given.
DecryptMetadata(revealedData, release) ==
    LET json == ToUtf8String(revealedData)
        payload == JsonParse(json)
        k == JsonMember(payload, "k")
        c == JsonMember(payload, "c")
        s == JsonMember(payload, "s")
    IN  IF Truthy(k) /\ Truthy(c)
        THEN IF /\ release # Undefined
                /\ release[1].fileCidHash # <<>>
                /\ Keccak256(c[1]) # release[1].fileCidHash
             THEN Null
             ELSE <<[filename |-> OrElse(JsonMember(payload, "n"), <<"encrypted-file">>),
                     size |-> IF s = Undefined THEN 0 ELSE s[1],
                     type |-> OrElse(JsonMember(payload, "t"),
                                     <<"application/octet-stream">>),
                     fileCid |-> c[1], decryptionKey |-> k[1]]>>
        ELSE <<[filename |-> <<"encrypted-file">>, size |-> 0,
                type |-> <<"application/octet-stream">>,
                fileCid |-> <<>>, decryptionKey |-> json]>>

\* The decryptMetadata call handleReleaseSelect makes.
SelectMetadata(release) == DecryptMetadata(release.revealed[1], Undefined)

\* handleReleaseSelect(release), release an entry of the rendered list.
HandleReleaseSelect(i) ==
    /\ i \in 1..Len(releases)
    /\ selectedRelease' = <<releases[i]>>
    /\ decryptedMetadata' =
           IF releases[i].isRevealed /\ releases[i].revealed # Undefined
           THEN SelectMetadata(releases[i])
           ELSE Null
    /\ UNCHANGED <<height, contractReleases, chainLogs, localStorage, creating,
                   releases, pending, scan, trial, codec>>

-----------------------------------------------------------------------------
(* The specification of the store, the chain and the pages *)

ScanIdle == [pc |-> "idle"]
NoTrial == [updates |-> <<>>, left |-> {}]

\* No file has been encrypted or fetched yet.
NoCodec ==
    [stage |-> "idle", plaintext |-> Null, keyHex |-> <<>>, frame |-> <<>>,
     decoder |-> "", decodeKey |-> <<>>, calls |-> <<>>, error |-> "",
     threw |-> FALSE, output |-> Null]

Init ==
    /\ height = 0
    /\ contractReleases = [i \in Ids |-> ZeroRelease]
    /\ chainLogs = <<>>
    /\ localStorage = [tblock |-> Undefined, lastBlock |-> Undefined, rel |-> <<>>]
    /\ creating = Null
    /\ releases = <<>>
    /\ pending = {}
    /\ selectedRelease = Null
    /\ decryptedMetadata = Null
    /\ scan = ScanIdle
    /\ trial = NoTrial
    /\ codec = NoCodec

Next ==
    \/ \E d \in Jumps : AdvanceChain(d)
    \/ \E b \in 1..MaxBlocksAhead : CreateMediaReleaseStart(b)
    \/ CreateReleaseWithDirectFunding
    \/ HandleCreate
    \/ \E id \in Ids : OnBlocklockReceived(id)
    \/ LoadFromLocalStorage
    \/ \E id \in Ids, rpc \in RpcModes : CheckReleaseStatusRead(id, rpc)
    \/ \E rpc \in RpcModes : FetchReleasesRead(rpc)
    \/ \E rpc \in RpcModes : UpdateCurrentBlockRead(rpc)
    \/ \E p \in pending : SetReleases(p)
    \/ \E i \in 1..MaxReleases : HandleReleaseSelect(i)

Spec == Init /\ [][Next]_vars

-----------------------------------------------------------------------------
(* The store alone: its four updaters under every answer the providers and  *)
(* localStorage can give, for the ids 1..MaxId.                             *)

\* Block numbers the answers are drawn from: one within RECENT_CREATION_BLOCKS
\* of block 0, the others beyond.
TrialBlocks == {k * (RECENT_CREATION_BLOCKS + 1) : k \in 0..MaxBlock}

\* The target block of every release of these trials, as handleCreate stored
\* it and as the contract holds it.
TrialUnlock == RECENT_CREATION_BLOCKS + 1

\* The payload revealed for request id n.
PayloadOf(n) == RevealPayload(KeyOf(n), CidOf(n))

\* The release_<id> entries localStorage can hold.
AnyEntries ==
    {[k \in S |-> [requestId |-> k, targetBlock |-> TrialUnlock, createdAtBlock |-> 0]] :
        S \in SUBSET StoreIds}

\* What metaOf can answer for request id n: the release, or the empty slot of
\* an id the contract the wallet is connected to does not know.
AnyMeta(n) ==
    {[creator |-> ZeroAddress, fileCidHash |-> ZeroHash, unlockAtBlock |-> 0,
      isRevealed |-> FALSE]}
    \cup {[creator |-> UserAddress, fileCidHash |-> Keccak256(CidOf(n)),
           unlockAtBlock |-> TrialUnlock, isRevealed |-> b] : b \in BOOLEAN}

\* What fetchRevealedPayload can have returned to a caller that read isRevealed.
AnyRevealedData(n, isRevealed) ==
    IF isRevealed THEN {Null, Some(PayloadOf(n))} ELSE {Null}

\* What getReleaseById can return for request id n.
AnyReleaseRecord(n) ==
    UNION {{ReleaseRecord(n, info, cb, data) :
               cb \in TrialBlocks, data \in AnyRevealedData(n, info.isRevealed)} :
           info \in AnyMeta(n)}

\* The item fetchReleases can build for the Created log of request id n at
\* chain height cb.
AnyItem(n, cb) ==
    UNION {{ItemRecord(CreatedLog(n, UserAddress, Keccak256(CidOf(n)), TrialUnlock, 0),
                       cb, b, data) : data \in AnyRevealedData(n, b)} :
           b \in BOOLEAN}

\* The items of one fetchReleases call: one per Created log found, in log order.
RECURSIVE ItemsFrom(_, _)
ItemsFrom(f, keys) ==
    IF keys = {} THEN <<>>
    ELSE LET k == CHOOSE x \in keys : \A y \in keys : x <= y
         IN  <<f[k]>> \o ItemsFrom(f, keys \ {k})

AnyItems ==
    UNION {UNION {{ItemsFrom(f, S) :
                      f \in {g \in [S -> UNION {AnyItem(n, cb) : n \in S}] :
                                \A n \in S : g[n].requestId = n}} :
                  S \in SUBSET StoreIds} : cb \in TrialBlocks}

\* loadFromLocalStorage with the entries rel in localStorage.
LoadEntries(rel) ==
    /\ releases' = LoadedReleases(releases, rel)
    /\ UNCHANGED <<height, contractReleases, chainLogs, localStorage, creating,
                   pending, selectedRelease, decryptedMetadata, scan, trial, codec>>

\* A call whose reads returned p runs its setReleases.
SetReleasesWith(p) ==
    /\ releases' = ApplyPending(p)
    /\ UNCHANGED <<height, contractReleases, chainLogs, localStorage, creating,
                   pending, selectedRelease, decryptedMetadata, scan, trial, codec>>

NextStore ==
    \/ \E rel \in AnyEntries : LoadEntries(rel)
    \/ \E n \in StoreIds : \E r \in AnyReleaseRecord(n) :
           SetReleasesWith(PendingCheck(n, r))
    \/ \E items \in AnyItems : SetReleasesWith(PendingFetch(items))
    \/ \E cb \in TrialBlocks : SetReleasesWith(PendingBlock(cb))

SpecStore == Init /\ [][NextStore]_vars

-----------------------------------------------------------------------------
(* The scanner alone: one fetchRevealedPayload or getLogsChunked call, one   *)
(* provider read per step, every getLogs call recorded in scan.calls.        *)

MaxChunk == 10
MaxFrom == 1
MaxRange == 37
MaxRejects == 1

\* Chain heights and target blocks of the calls: below, at and above
\* targetBlock - PREFETCH_BLOCKS_BEFORE, and beyond both windows.
ScanTarget == 150
ScanHeights == {0, 100, ScanTarget - PREFETCH_BLOCKS_BEFORE - 1,
                ScanTarget - PREFETCH_BLOCKS_BEFORE, ScanTarget,
                ScanTarget + REVEAL_SEARCH_FORWARD + 1,
                ScanTarget + RECENT_WINDOW + 1}
ScanTargets == {Undefined, Some(ScanTarget)}
ScanUnlocks == {MaxRange \div 2, ScanTarget}

\* A chain on which release 1 was created at block 0 and revealed at its
\* unlock block.
RevealedRelease(unlockAtBlock) ==
    [creator |-> UserAddress, fileCidHash |-> Keccak256(CidOf(1)),
     unlockAtBlock |-> unlockAtBlock, isRevealed |-> TRUE,
     revealed |-> Some(PayloadOf(1)), cipher |-> Undefined]
RevealedChain(unlockAtBlock) ==
    <<CreatedLog(1, UserAddress, Keccak256(CidOf(1)), unlockAtBlock, 0),
      RevealedLog(1, PayloadOf(1), unlockAtBlock)>>

\* A fetchRevealedPayload(requestId, targetBlock) call about to start.
RevealScan(requestId, targetBlock) ==
    [pc |-> "start", caller |-> "fetchRevealedPayload",
     filter |-> RevealedFilter(requestId), targetBlock |-> targetBlock,
     currentBlock |-> 0, chunkSize |-> DEFAULT_GETLOGS_CHUNK,
     fromBlock |-> 0, toBlock |-> 0, start |-> 0,
     calls |-> <<>>, rejected |-> FALSE, failed |-> {}, logs |-> <<>>,
     result |-> Null]

\* A getLogsChunked(filter, fromBlock, toBlock, chunkSize) call about to loop.
ChunkScan(filter, fromBlock, toBlock, chunkSize) ==
    [pc |-> "chunks", caller |-> "getLogsChunked",
     filter |-> filter, targetBlock |-> Undefined,
     currentBlock |-> 0, chunkSize |-> chunkSize,
     fromBlock |-> fromBlock, toBlock |-> toBlock, start |-> fromBlock,
     calls |-> <<>>, rejected |-> FALSE, failed |-> {}, logs |-> <<>>,
     result |-> Null]

\* fetchRevealedPayload: getBlockNumber, the guard and the window. When
\* getBlockNumber rejects, the catch logs the error and throws it again.
FetchRevealedPayloadStart(rejects) ==
    /\ scan.pc = "start"
    /\ LET currentBlock == height
           plan == ScanPlan(currentBlock, scan.targetBlock)
       IN  scan' = IF rejects THEN [scan EXCEPT !.pc = "threw"]
                   ELSE IF plan = Null
                   THEN [scan EXCEPT !.pc = "skipped", !.currentBlock = currentBlock]
                   ELSE [scan EXCEPT !.pc = "chunks", !.currentBlock = currentBlock,
                                     !.fromBlock = plan[1][1], !.toBlock = plan[1][2],
                                     !.start = plan[1][1]]
    /\ UNCHANGED <<height, contractReleases, chainLogs, localStorage, creating,
                   releases, pending, selectedRelease, decryptedMetadata, trial, codec>>

\* Logs of a chunk put in front of the logs already collected.
PushLogsInFront(logs, chunkLogs) == chunkLogs \o logs

\* logs.push(...chunkLogs)
PushLogs(logs, chunkLogs) == logs \o chunkLogs

\* A filter with no topics: every log of the contract.
AnyLogFilter == [topics |-> <<>>]

\* One turn of the loop of getLogsChunked: a getLogs call that answers or
\* rejects; scan.failed holds the first blocks of the chunks whose call
\* rejected. The provider rejects at most MaxRejects calls of one scan.
GetLogsChunk(rejects) ==
    /\ scan.pc = "chunks"
    /\ scan.start <= scan.toBlock
    /\ rejects => Cardinality(scan.failed) < MaxRejects
    /\ LET end == ChunkEnd(scan.start, scan.chunkSize, scan.toBlock)
           chunkLogs == IF rejects THEN <<>>
                        ELSE GetLogs(scan.filter, scan.start, end)
       IN  scan' = [scan EXCEPT !.calls = Append(@, <<scan.start, end>>),
                                !.rejected = @ \/ rejects,
                                !.failed = IF rejects THEN @ \cup {scan.start} ELSE @,
                                !.logs = PushLogs(@, chunkLogs),
                                !.start = @ + scan.chunkSize]
    /\ UNCHANGED <<height, contractReleases, chainLogs, localStorage, creating,
                   releases, pending, selectedRelease, decryptedMetadata, trial, codec>>

\* getLogsChunked returns; fetchRevealedPayload then walks the logs.
GetLogsChunkedReturn ==
    /\ scan.pc = "chunks"
    /\ scan.start > scan.toBlock
    /\ LET found == IF scan.caller = "fetchRevealedPayload"
                    THEN FirstRevealed(scan.logs) ELSE Null
       IN  /\ scan' = [scan EXCEPT !.pc = "done",
                                   !.result = IF found = Null THEN Null
                                              ELSE found[1].payload]
           /\ localStorage' = NoteLastBlock(found)
    /\ UNCHANGED <<height, contractReleases, chainLogs, creating,
                   releases, pending, selectedRelease, decryptedMetadata, trial, codec>>

ScanCalls ==
    {RevealScan(1, t) : t \in ScanTargets} \cup
    {ChunkScan(f, from, from + n - 1, c) :
        f \in {RevealedFilter(1), CreatedFilter(UserAddress), AnyLogFilter},
        from \in 0..MaxFrom, n \in 1..MaxRange, c \in 1..MaxChunk}

InitScan ==
    /\ scan \in ScanCalls
    /\ height \in IF scan.caller = "getLogsChunked" THEN {scan.toBlock}
                   ELSE ScanHeights
    /\ \/ /\ contractReleases = [i \in Ids |-> ZeroRelease]
          /\ chainLogs = <<>>
       \/ \E u \in ScanUnlocks :
             /\ u <= height
             /\ contractReleases =
                    [i \in Ids |-> IF i = 1 THEN RevealedRelease(u) ELSE ZeroRelease]
             /\ chainLogs = RevealedChain(u)
    /\ localStorage = [tblock |-> Undefined, lastBlock |-> Undefined, rel |-> <<>>]
    /\ creating = Null
    /\ releases = <<>>
    /\ pending = {}
    /\ selectedRelease = Null
    /\ decryptedMetadata = Null
    /\ trial = NoTrial
    /\ codec = NoCodec

NextScan ==
    \/ \E rejects \in BOOLEAN : FetchRevealedPayloadStart(rejects)
    \/ \E rejects \in BOOLEAN : GetLogsChunk(rejects)
    \/ GetLogsChunkedReturn

SpecScan == InitScan /\ [][NextScan]_vars

CeilDiv(n, c) == (n + c - 1) \div c

\* C7: a fetchRevealedPayload call with a target block more than
\* PREFETCH_BLOCKS_BEFORE blocks above the height it read returns null and
\* has made no getLogs call.
NotYetMakesNoCall ==
    (/\ scan.pc # "idle"
     /\ scan.caller = "fetchRevealedPayload"
     /\ scan.pc \notin {"start", "threw"}
     /\ NotYet(scan.currentBlock, scan.targetBlock))
        => (scan.calls = <<>> /\ scan.result = Null /\ scan.pc = "skipped")

\* The worked example: height 100, target 150, returned.
NotYetAtHundred ==
    /\ scan.pc = "skipped"
    /\ scan.currentBlock = 100
    /\ scan.targetBlock = Some(ScanTarget)
    /\ scan.calls = <<>>
    /\ scan.result = Null

\* C8: a getLogsChunked call over [fromBlock, toBlock] with chunk size c has,
\* when it returns, made exactly ceil((toBlock - fromBlock + 1) / c) getLogs
\* calls, on consecutive chunks that do not overlap: the first begins at
\* fromBlock, each next one block after the previous end, the last ends at
\* toBlock, and every chunk but the last spans c blocks.
ChunksCoverRange ==
    (scan.pc = "done") =>
        LET calls == scan.calls
            k == Len(calls)
        IN  /\ k = CeilDiv(scan.toBlock - scan.fromBlock + 1, scan.chunkSize)
            /\ calls[1][1] = scan.fromBlock
            /\ calls[k][2] = scan.toBlock
            /\ \A i \in 1..k : calls[i][1] <= calls[i][2]
            /\ \A i \in 1..(k - 1) :
                  /\ calls[i + 1][1] = calls[i][2] + 1
                  /\ calls[i][2] - calls[i][1] + 1 = scan.chunkSize

\* The worked example: 37 blocks from block 0 in chunks of 10.
ThirtySevenInTens ==
    /\ scan.pc = "done"
    /\ scan.calls = <<<<0, 9>>, <<10, 19>>, <<20, 29>>, <<30, 36>>>>

-----------------------------------------------------------------------------
(* Three updates of one request id, applied to an empty store in every order *)

\* The update loadFromLocalStorage makes from the entries rel.
LocalUpdate(rel) ==
    [op |-> "load", requestId |-> 0, items |-> <<>>, currentBlock |-> 0, rel |-> rel]

ApplyTrialUpdate(prev, u) ==
    IF u.op = "load" THEN LoadedReleases(prev, u.rel) ELSE ApplyUpdate(prev, u)

\* The local seed of id n, a fetchReleases merge of its Created log and a
\* checkReleaseStatus result that found it revealed.
OrderTrials ==
    UNION {{[updates |-> <<LocalUpdate([k \in {n} |->
                                [requestId |-> n, targetBlock |-> TrialUnlock,
                                 createdAtBlock |-> 0]]),
                           PendingFetch(<<item>>),
                           PendingCheck(n, r)>>,
             left |-> {1, 2, 3}] :
               item \in UNION {AnyItem(n, cb) : cb \in TrialBlocks},
               r \in {x \in AnyReleaseRecord(n) : x.isRevealed}} :
           n \in StoreIds}

\* One of the updates not yet applied is applied.
ApplyTrial(i) ==
    /\ i \in trial.left
    /\ releases' = ApplyTrialUpdate(releases, trial.updates[i])
    /\ trial' = [trial EXCEPT !.left = @ \ {i}]
    /\ UNCHANGED <<height, contractReleases, chainLogs, localStorage, creating,
                   pending, selectedRelease, decryptedMetadata, scan, codec>>

InitOrder ==
    /\ trial \in OrderTrials
    /\ codec = NoCodec
    /\ height = 0
    /\ contractReleases = [i \in Ids |-> ZeroRelease]
    /\ chainLogs = <<>>
    /\ localStorage = [tblock |-> Undefined, lastBlock |-> Undefined, rel |-> <<>>]
    /\ creating = Null
    /\ releases = <<>>
    /\ pending = {}
    /\ selectedRelease = Null
    /\ decryptedMetadata = Null
    /\ scan = ScanIdle

NextOrder == \E i \in 1..3 : ApplyTrial(i)

SpecOrder == InitOrder /\ [][NextOrder]_vars

\* The store after the three updates in the order local, confirmed, revealed.
InListedOrder(updates) ==
    ApplyTrialUpdate(ApplyTrialUpdate(ApplyTrialUpdate(<<>>, updates[1]),
                                      updates[2]), updates[3])

\* C3: for one requestId, a local-seed update, a confirmed update and a
\* revealed update leave the same store record in whatever order they are
\* applied: the store after all three equals the store the listed order gives.
OrderIndependent ==
    (trial.updates # <<>> /\ trial.left = {})
        => releases = InListedOrder(trial.updates)

-----------------------------------------------------------------------------
(* Repeated status checks with a provider that answers every call *)

\* A checkReleaseStatus call made when no earlier call is still in flight,
\* answered by the provider.
CheckReleaseStatusInTurn(requestId) ==
    /\ pending = {}
    /\ CheckReleaseStatusRead(requestId, "ok")

NextLive ==
    \/ \E d \in Jumps : AdvanceChain(d)
    \/ \E b \in 1..MaxBlocksAhead : CreateMediaReleaseStart(b)
    \/ CreateReleaseWithDirectFunding
    \/ HandleCreate
    \/ \E id \in Ids : OnBlocklockReceived(id)
    \/ LoadFromLocalStorage
    \/ \E id \in Ids : CheckReleaseStatusInTurn(id)
    \/ \E p \in pending : SetReleases(p)

\* Status checks keep being made for every release of the store (the manual
\* check, or the auto-check tick), and the call that was made resolves.
SpecLive ==
    /\ Init
    /\ [][NextLive]_vars
    /\ \A id \in Ids : WF_vars(CheckReleaseStatusInTurn(id))
    /\ WF_vars(\E p \in pending : SetReleases(p))

\* Whether the store holds a record of id that shows the reveal of the chain.
ShowsReveal(id) ==
    \E i \in 1..Len(releases) :
        /\ releases[i].requestId = id
        /\ releases[i].isRevealed
        /\ releases[i].revealed = contractReleases[id].revealed

\* C4: for a release of the store whose Revealed event is on chain, at
\* whatever earlier height, repeated status checks with a responsive
\* provider eventually leave the record with isRevealed = true and revealed
\* equal to the payload of the event.
ChecksEventuallyShowReveal ==
    \A id \in Ids :
        (id \in RequestIds(releases) /\ contractReleases[id].isRevealed)
            ~> ShowsReveal(id)

-----------------------------------------------------------------------------
(* The viewer under a provider whose Revealed log need not match the hash    *)
(* the contract holds: createReleaseWithDirectFunding takes any fileCidHash  *)
(* with any ciphertext, and the log stream is not trusted.                   *)

\* A payload whose locator is not the one fileCidHash was computed from.
ForeignPayload(n) == RevealPayload(KeyOf(n), OtherCid)

\* What getReleaseById can return for request id n from such a provider.
AnyViewedRecord(n) ==
    AnyReleaseRecord(n) \cup
    {ReleaseRecord(n, info, cb, Some(ForeignPayload(n))) :
        info \in {m \in AnyMeta(n) : m.isRevealed}, cb \in TrialBlocks}

NextViewer ==
    \/ \E rel \in AnyEntries : LoadEntries(rel)
    \/ \E n \in StoreIds : \E r \in AnyViewedRecord(n) :
           SetReleasesWith(PendingCheck(n, r))
    \/ \E i \in 1..MaxId : HandleReleaseSelect(i)

SpecViewer == Init /\ [][NextViewer]_vars

\* The locator c of a reveal payload.
LocatorOf(payload) == JsonMember(JsonParse(ToUtf8String(payload)), "c")[1]

\* C5: a Revealed payload whose locator does not hash to the fileCidHash of
\* the release is rejected and never merged: no record of the store is
\* revealed with, or holds, a payload whose locator hashes to another value
\* than its fileCidHash.
MismatchNeverMerged ==
    \A i \in 1..Len(releases) :
        releases[i].revealed # Undefined
            => Keccak256(LocatorOf(releases[i].revealed[1])) = releases[i].fileCidHash

\* C6: the metadata handleReleaseSelect -> decryptMetadata shows for the
\* selected release has a locator whose keccak256 equals the fileCidHash of
\* that release; a mismatch yields no metadata.
SelectedMetadataVerified ==
    (selectedRelease # Null /\ decryptedMetadata # Null)
        => Keccak256(decryptedMetadata[1].fileCid) = selectedRelease[1].fileCidHash

-----------------------------------------------------------------------------
(* createMediaRelease alone, call by call, at heights near 2^40. A block     *)
(* number is a pair <<high, low>> of 20-bit limbs: high * 2^20 + low.        *)

MaxBelow == 3
MaxAhead == 4

WideLimb == 2^20
WideAdd(a, b) ==
    LET low == a[2] + b[2]
    IN  <<a[1] + b[1] + (low \div WideLimb), low % WideLimb>>
WideGreater(a, b) == a[1] > b[1] \/ (a[1] = b[1] /\ a[2] > b[2])

\* 2 ** 40 - 1
MAX_UINT40 == <<WideLimb - 1, WideLimb - 1>>

\* A range check against 2 ** 48 - 1.
TargetOverflowsUint48(targetBlock) ==
    WideGreater(targetBlock, <<(2^28) - 1, WideLimb - 1>>)

\* targetBlock > MAX_UINT40
TargetOverflows(targetBlock) == WideGreater(targetBlock, MAX_UINT40)

\* The payload createMediaRelease builds from a request: k and c, then n and
\* t when they are truthy and s when it is a number.
RevealPayloadOf(request) ==
    Hexlify(ToUtf8Bytes(JsonStringify(
        <<<<"k", request.decryptionKey>>, <<"c", request.fileCid>>>>
        \o (IF Truthy(request.filename)
            THEN <<<<"n", request.filename[1]>>>> ELSE <<>>)
        \o (IF Truthy(request.filetype)
            THEN <<<<"t", request.filetype[1]>>>> ELSE <<>>)
        \o (IF request.filesize # Undefined
            THEN <<<<"s", request.filesize[1]>>>> ELSE <<>>))))

\* The requests handleCreate can make: key and locator are set (the button
\* is disabled otherwise), the file metadata may be missing or empty.
CreateRequests ==
    {[fileCid |-> CidOf(1), decryptionKey |-> KeyOf(1),
      blocksAhead |-> <<0, b>>, filename |-> n, filetype |-> t, filesize |-> z] :
        b \in 0..MaxAhead,
        n \in {Undefined, Some(<<>>), Some(<<"clip.mp4">>)},
        t \in {Undefined, Some(<<"video/mp4">>)},
        z \in {Undefined, Some(0), Some(5)}}

\* The heights getBlockNumber can answer: the first blocks, and the last
\* blocks below 2 ** 40.
WideHeights ==
    {<<0, k>> : k \in 0..1} \cup
    {<<WideLimb - 1, WideLimb - 1 - k>> : k \in 0..MaxBelow}

CreateCall(request) ==
    [stage |-> "start", request |-> request, currentBlock |-> <<0, 0>>,
     targetBlock |-> <<0, 0>>, calls |-> <<>>, payload |-> Null,
     fileCidHash |-> ZeroHash, error |-> Null]

CreatingUnchanged ==
    UNCHANGED <<height, contractReleases, chainLogs, localStorage, releases,
                pending, selectedRelease, decryptedMetadata, scan, trial, codec>>

\* provider.getBlockNumber(), the target block and its range check.
CreateGetBlockNumber(currentBlock) ==
    /\ creating # Null
    /\ creating[1].stage = "start"
    /\ LET c == creating[1]
           targetBlock == WideAdd(currentBlock, c.request.blocksAhead)
       IN  creating' =
               <<[c EXCEPT !.calls = Append(@, "getBlockNumber"),
                           !.currentBlock = currentBlock,
                           !.targetBlock = targetBlock,
                           !.stage = IF TargetOverflows(targetBlock)
                                     THEN "rejected" ELSE "encrypt",
                           !.error = IF TargetOverflows(targetBlock)
                                     THEN <<"exceeds uint40 maximum value">>
                                     ELSE Null]>>
    /\ CreatingUnchanged

\* The payload, blocklock.encrypt and the hash of the locator.
CreateEncrypt ==
    /\ creating # Null
    /\ creating[1].stage = "encrypt"
    /\ creating' =
           <<[creating[1] EXCEPT
                 !.calls = Append(@, "blocklock.encrypt"),
                 !.payload = Some(RevealPayloadOf(creating[1].request)),
                 !.fileCidHash = Keccak256(creating[1].request.fileCid),
                 !.stage = "fee"]>>
    /\ CreatingUnchanged

\* provider.getFeeData()
CreateGetFeeData ==
    /\ creating # Null
    /\ creating[1].stage = "fee"
    /\ creating' = <<[creating[1] EXCEPT !.calls = Append(@, "getFeeData"),
                                         !.stage = "price"]>>
    /\ CreatingUnchanged

\* blocklockContract.estimateRequestPriceNative(..)
CreateEstimatePrice ==
    /\ creating # Null
    /\ creating[1].stage = "price"
    /\ creating' =
           <<[creating[1] EXCEPT !.calls = Append(@, "estimateRequestPriceNative"),
                                 !.stage = "send"]>>
    /\ CreatingUnchanged

\* contract.createReleaseWithDirectFunding(..): the transaction is sent.
CreateSend ==
    /\ creating # Null
    /\ creating[1].stage = "send"
    /\ creating' =
           <<[creating[1] EXCEPT
                 !.calls = Append(@, "createReleaseWithDirectFunding"),
                 !.stage = "sent"]>>
    /\ CreatingUnchanged

\* The payload of the request, once revealed, goes through decryptMetadata.
DecryptCreatedPayload ==
    /\ creating # Null
    /\ creating[1].stage = "sent"
    /\ creating' = <<[creating[1] EXCEPT !.stage = "shown"]>>
    /\ decryptedMetadata' = DecryptMetadata(creating[1].payload[1], Undefined)
    /\ UNCHANGED <<height, contractReleases, chainLogs, localStorage, releases,
                   pending, selectedRelease, scan, trial, codec>>

InitCreate ==
    /\ creating \in {<<CreateCall(r)>> : r \in CreateRequests}
    /\ height = 0
    /\ contractReleases = [i \in Ids |-> ZeroRelease]
    /\ chainLogs = <<>>
    /\ localStorage = [tblock |-> Undefined, lastBlock |-> Undefined, rel |-> <<>>]
    /\ releases = <<>>
    /\ pending = {}
    /\ selectedRelease = Null
    /\ decryptedMetadata = Null
    /\ scan = ScanIdle
    /\ trial = NoTrial
    /\ codec = NoCodec

NextCreate ==
    \/ \E h \in WideHeights : CreateGetBlockNumber(h)
    \/ CreateEncrypt
    \/ CreateGetFeeData
    \/ CreateEstimatePrice
    \/ CreateSend
    \/ DecryptCreatedPayload

SpecCreate == InitCreate /\ [][NextCreate]_vars

-----------------------------------------------------------------------------
(* Properties of the store *)

\* C9: no two records of releases have the same requestId, whatever sequence
\* of loadFromLocalStorage, fetchReleases, checkReleaseStatus and
\* updateCurrentBlock updates produced the list.
UniqueRequestIds ==
    \A i \in 1..Len(releases) : \A j \in 1..Len(releases) :
        i # j => releases[i].requestId # releases[j].requestId

\* A list of two records: one still the local seed, one written by a merge.
TwoRecordsOneMerged ==
    /\ Len(releases) >= 2
    /\ \E i \in 1..Len(releases) : releases[i].fileCidHash = LocalSeedHash
    /\ \E i \in 1..Len(releases) : releases[i].currentBlock # Undefined

\* C10: after every update of releases the list is in strictly descending
\* requestId order.
StrictlyDescending ==
    \A i \in 1..(Len(releases) - 1) :
        releases[i].requestId > releases[i + 1].requestId

\* A list of two records that a fetch or a check left a revealed record in.
TwoRecordsSorted ==
    /\ Len(releases) >= 2
    /\ \E i \in 1..Len(releases) : releases[i].isRevealed

\* C1: isRevealed of a record of the store never goes from true to false.
RevealedStaysRevealed ==
    [][\A i \in 1..Len(releases) : \A j \in 1..Len(releases') :
          (releases[i].isRevealed /\ releases'[j].requestId = releases[i].requestId)
              => releases'[j].isRevealed]_vars

\* C2: once revealed of a record of the store is set, no later update changes
\* or clears it.
PayloadStaysSet ==
    [][\A i \in 1..Len(releases) : \A j \in 1..Len(releases') :
          (releases[i].revealed # Undefined
           /\ releases'[j].requestId = releases[i].requestId)
              => releases'[j].revealed = releases[i].revealed]_vars

\* C11: in every state of the store a record has a revealed payload if and
\* only if its isRevealed is true.
PayloadIffRevealed ==
    \A i \in 1..Len(releases) :
        (releases[i].revealed # Undefined) <=> releases[i].isRevealed

\* C12, as stated: once a record is in the store, no update changes its
\* unlockAtBlock or its fileCidHash.
HashAndUnlockWriteOnce ==
    [][\A i \in 1..Len(releases) : \A j \in 1..Len(releases') :
          releases'[j].requestId = releases[i].requestId
              => /\ releases'[j].unlockAtBlock = releases[i].unlockAtBlock
                 /\ releases'[j].fileCidHash = releases[i].fileCidHash]_vars

\* C12, as the code has it: once a record is in the store, no update changes
\* its unlockAtBlock, and its fileCidHash changes only from the placeholder
\* "0x" of the local seed to the hash the contract holds.
HashWriteOnceAfterSeed ==
    [][\A i \in 1..Len(releases) : \A j \in 1..Len(releases') :
          releases'[j].requestId = releases[i].requestId
              => /\ releases'[j].unlockAtBlock = releases[i].unlockAtBlock
                 /\ \/ releases'[j].fileCidHash = releases[i].fileCidHash
                    \/ /\ releases[i].fileCidHash = LocalSeedHash
                       /\ releases'[j].fileCidHash =
                              contractReleases[releases[i].requestId].fileCidHash]_vars

\* A record a status check has filled in, with a second check still to be
\* written over it.
CheckedRecordRechecked ==
    /\ \E i \in 1..Len(releases) :
          /\ releases[i].fileCidHash # LocalSeedHash
          /\ releases[i].currentBlock # Undefined
    /\ \E p \in pending : p.op = "check"

\* C16: the localStorage entry release_<requestId> of a new release is
\* written before its creation transaction is confirmed on chain: whenever
\* the contract holds the release, the entry is there.
LocalRecordBeforeConfirmation ==
    \A id \in Ids :
        contractReleases[id].creator # ZeroAddress
            => id \in DOMAIN localStorage.rel

\* The results a fetchReleases or checkReleaseStatus call can hand to setReleases.
StoreUpdates ==
    {PendingFetch(items) : items \in AnyItems} \cup
    UNION {{PendingCheck(n, r) : r \in AnyReleaseRecord(n)} : n \in StoreIds}

\* C13: applying the same fetchReleases or checkReleaseStatus result to the
\* store twice or three times gives the store that applying it once gives;
\* a reveal written three times in a row leaves exactly one record of its
\* requestId, with isRevealed = true.
SameUpdateIdempotent ==
    \A u \in StoreUpdates :
        LET once == ApplyUpdate(releases, u)
            twice == ApplyUpdate(once, u)
            thrice == ApplyUpdate(twice, u)
        IN  /\ twice = once
            /\ thrice = once
            /\ (u.op = "check" /\ u.items[1].isRevealed
                    /\ u.requestId \in RequestIds(releases))
                  => Cardinality({i \in 1..Len(thrice) :
                                     thrice[i].requestId = u.requestId}) = 1
                     /\ \A i \in 1..Len(thrice) :
                           thrice[i].requestId = u.requestId => thrice[i].isRevealed

\* A store a reveal was written to: a record with isRevealed and its payload,
\* next to a record a fetch merged.
RevealWrittenNextToFetched ==
    /\ \E i \in 1..Len(releases) :
          releases[i].isRevealed /\ releases[i].revealed # Undefined
    /\ \E i \in 1..Len(releases) :
          ~releases[i].isRevealed /\ releases[i].fileCidHash # LocalSeedHash

\* C14: a provider failure is never reported as "not found": when getLogs
\* calls of the scan rejected, fetchRevealedPayload throws instead of
\* returning null; it returns null only for a window whose every chunk was
\* read and holds no Revealed log of the request.
NullOnlyAfterFullScan ==
    (/\ scan.pc = "done"
     /\ scan.caller = "fetchRevealedPayload"
     /\ scan.result = Null)
        => ~scan.rejected

\* C17: a read that fails on the provider in use is made again on the
\* fallback provider, never skipped: by the time getLogsChunked returns,
\* a chunk whose getLogs call rejected has been asked for a second time, so
\* more getLogs calls were made than the range has chunks.
RejectedReadAskedAgain ==
    (scan.pc = "done" /\ scan.rejected) =>
        Len(scan.calls) >
            CeilDiv(scan.toBlock - scan.fromBlock + 1, scan.chunkSize)

-----------------------------------------------------------------------------
(* The file codec: encryptBytes and the decrypt step of the two decoders *)

MaxPlain == 2
ByteMod == 256
KEY_BYTES == 32
IV_BYTES == 12
TAG_BYTES == 16
FRAME_VERSION == 1

\* A hex string is the sequence of its digits, each in 0..15.
\* Array.from(key, b => b.toString(16).padStart(2, '0')).join(''):
\* two digits for every byte.
BytesToHex(bytes) ==
    [i \in 1..(2 * Len(bytes)) |->
        IF i % 2 = 1 THEN bytes[(i + 1) \div 2] \div 16
        ELSE bytes[i \div 2] % 16]

\* keyHex.match(/.{1,2}/g).map(h => parseInt(h, 16)): the digits taken in
\* pairs, a last single digit on its own.
HexToBytes(hex) ==
    [i \in 1..((Len(hex) + 1) \div 2) |->
        IF 2 * i <= Len(hex) THEN 16 * hex[2 * i - 1] + hex[2 * i]
        ELSE hex[2 * i - 1]]

\* crypto.subtle.importKey('raw', keyBytes, {name: 'AES-GCM'}, ...) takes
\* keys of 128, 192 and 256 bits and throws on any other length.
ImportKeyAccepts(keyBytes) == Len(keyBytes) \in {16, 24, 32}

\* AES-GCM as an authenticated cipher: a keystream that depends on the key,
\* the IV and the position, and a tag over the key, the IV and the body.
GcmStream(keyBytes, iv, i) ==
    (keyBytes[((i - 1) % Len(keyBytes)) + 1] + iv[((i - 1) % Len(iv)) + 1] + i)
        % ByteMod

RECURSIVE GcmWeigh(_, _)
GcmWeigh(body, n) ==
    IF n = 0 THEN 0 ELSE (GcmWeigh(body, n - 1) + n * body[n]) % ByteMod

GcmTag(keyBytes, iv, body) ==
    [j \in 1..TAG_BYTES |->
        (GcmWeigh(body, Len(body)) + Len(body) + keyBytes[j]
            + iv[((j - 1) % Len(iv)) + 1] + j) % ByteMod]

\* crypto.subtle.encrypt({name: 'AES-GCM', iv}, key, plaintext): the body
\* followed by the tag.
GcmEncrypt(keyBytes, iv, plaintext) ==
    LET body == [i \in 1..Len(plaintext) |->
                    (plaintext[i] + GcmStream(keyBytes, iv, i)) % ByteMod]
    IN  body \o GcmTag(keyBytes, iv, body)

\* crypto.subtle.decrypt({name: 'AES-GCM', iv}, key, data): the plaintext, or
\* Null when it throws (data shorter than a tag, or a tag that does not match).
GcmDecrypt(keyBytes, iv, data) ==
    IF Len(data) < TAG_BYTES
    THEN Null
    ELSE LET body == SubSeq(data, 1, Len(data) - TAG_BYTES)
             tag == SubSeq(data, Len(data) - TAG_BYTES + 1, Len(data))
         IN  IF tag # GcmTag(keyBytes, iv, body)
             THEN Null
             ELSE Some([i \in 1..Len(body) |->
                          (body[i] + ByteMod - GcmStream(keyBytes, iv, i))
                              % ByteMod])

\* encryptBytes(plaintext, keyHex) with the IV getRandomValues drew.
EncryptBytes(plaintext, keyHex, iv) ==
    LET keyBytes == HexToBytes(keyHex)
        ct == GcmEncrypt(keyBytes, iv, plaintext)
    IN  <<FRAME_VERSION>> \o iv \o ct

\* ciphertext.slice(1, 13)
IvOf(ciphertext) == SubSeq(ciphertext, 2, 1 + IV_BYTES)

\* A slice that starts one byte early, at the last byte of the IV.
CiphertextFromIv(ciphertext) == SubSeq(ciphertext, 1 + IV_BYTES, Len(ciphertext))

\* ciphertext.slice(13)
CiphertextOf(ciphertext) == SubSeq(ciphertext, 2 + IV_BYTES, Len(ciphertext))

\* What a decoder does with the bytes it fetched: the error it throws (""
\* for none), the WebCrypto calls it made, the plaintext it obtained.
DecodeOutcome(error, calls, plaintext) ==
    [error |-> error, calls |-> calls, plaintext |-> plaintext]

\* The same steps with the version looked at before the length.
DecryptFrameVersionFirst(ciphertext, keyHex) ==
    IF Len(ciphertext) = 0 \/ ciphertext[1] # FRAME_VERSION
    THEN DecodeOutcome("Unsupported ciphertext version", <<>>, Null)
    ELSE IF Len(ciphertext) < 1 + IV_BYTES + TAG_BYTES
    THEN DecodeOutcome("Ciphertext too short", <<>>, Null)
    ELSE LET plaintext == GcmDecrypt(HexToBytes(keyHex), IvOf(ciphertext),
                                     CiphertextOf(ciphertext))
         IN  IF plaintext = Null
             THEN DecodeOutcome("OperationError", <<"importKey", "decrypt">>, Null)
             ELSE DecodeOutcome("", <<"importKey", "decrypt">>, plaintext)

\* The decrypt step createMediaPreviewUrl and downloadDecryptedFile share.
DecryptFrame(ciphertext, keyHex) ==
    IF Len(ciphertext) < 1 + IV_BYTES + TAG_BYTES
    THEN DecodeOutcome("Ciphertext too short", <<>>, Null)
    ELSE IF ciphertext[1] # FRAME_VERSION
    THEN DecodeOutcome("Unsupported ciphertext version", <<>>, Null)
    ELSE LET iv == IvOf(ciphertext)
             ct == CiphertextOf(ciphertext)
             keyBytes == HexToBytes(keyHex)
         IN  IF ~ImportKeyAccepts(keyBytes)
             THEN DecodeOutcome("DataError", <<"importKey">>, Null)
             ELSE LET plaintext == GcmDecrypt(keyBytes, iv, ct)
                  IN  IF plaintext = Null
                      THEN DecodeOutcome("OperationError",
                                         <<"importKey", "decrypt">>, Null)
                      ELSE DecodeOutcome("", <<"importKey", "decrypt">>,
                                         plaintext)

\* The keys handleUpload draws: 32 random bytes, written in hex.
KeySeeds == {3, 200}
HexKeys ==
    {BytesToHex([i \in 1..KEY_BYTES |-> IF i = 1 THEN n ELSE (9 * i) % ByteMod]) :
        n \in KeySeeds}

\* The IVs getRandomValues can draw (two of them).
Ivs == {[i \in 1..IV_BYTES |-> (n * i) % ByteMod] : n \in {0, 7}}

\* The files: byte strings of up to MaxPlain bytes.
PlainBytes == {0, 255}
Plaintexts ==
    UNION {[1..n -> PlainBytes] : n \in 0..MaxPlain}

\* Bytes the gateway can serve that encryptBytes did not write: a first byte
\* and zeros, of lengths around 1 + 12 + 16.
RawFrames ==
    {[i \in 1..n |-> IF i = 1 THEN v ELSE 0] :
        v \in {0, 1, 2},
        n \in {0, 1, IV_BYTES + TAG_BYTES, 1 + IV_BYTES + TAG_BYTES,
               1 + IV_BYTES + TAG_BYTES + MaxPlain}}

\* The metadata a decoder is given: a locator (or none) and a key.
DecoderMetadata ==
    {[fileCid |-> c, decryptionKey |-> k] : c \in {<<>>, CidOf(1)}, k \in HexKeys}

CodecUnchanged ==
    UNCHANGED <<height, contractReleases, chainLogs, localStorage, creating,
                releases, pending, selectedRelease, decryptedMetadata, scan,
                trial>>

\* uploadFile with a key: encryptBytes writes the frame that is stored.
UploadEncrypted(plaintext, keyHex, iv) ==
    /\ codec.stage = "idle"
    /\ ImportKeyAccepts(HexToBytes(keyHex))
    /\ codec' = [codec EXCEPT !.stage = "stored",
                              !.plaintext = Some(plaintext),
                              !.keyHex = keyHex,
                              !.frame = EncryptBytes(plaintext, keyHex, iv)]
    /\ CodecUnchanged

\* The gateway holds bytes that encryptBytes did not write.
GatewayServes(frame) ==
    /\ codec.stage = "idle"
    /\ codec' = [codec EXCEPT !.stage = "stored", !.frame = frame]
    /\ CodecUnchanged

\* The body of the try block of both decoders, up to the blob.
FetchAndDecrypt(metadata, responseOk) ==
    IF metadata.fileCid = <<>>
    THEN DecodeOutcome("Missing encrypted CID", <<>>, Null)
    ELSE IF ~responseOk
    THEN DecodeOutcome("Failed to fetch file", <<"fetch">>, Null)
    ELSE LET outcome == DecryptFrame(codec.frame, metadata.decryptionKey)
         IN  [outcome EXCEPT !.calls = <<"fetch">> \o @]

\* createMediaPreviewUrl(metadata): the URL of the blob, or null after
\* logging the error.
CreateMediaPreviewUrl(metadata, responseOk) ==
    /\ codec.stage = "stored"
    /\ LET outcome == FetchAndDecrypt(metadata, responseOk)
       IN  codec' = [codec EXCEPT !.stage = "decoded",
                                  !.decoder = "createMediaPreviewUrl",
                                  !.decodeKey = metadata.decryptionKey,
                                  !.calls = outcome.calls,
                                  !.error = outcome.error,
                                  !.output = outcome.plaintext]
    /\ CodecUnchanged

\* downloadDecryptedFile(metadata): the blob is saved, or the error is
\* logged and thrown again.
DownloadDecryptedFile(metadata, responseOk) ==
    /\ codec.stage = "stored"
    /\ LET outcome == FetchAndDecrypt(metadata, responseOk)
       IN  codec' = [codec EXCEPT !.stage = "decoded",
                                  !.decoder = "downloadDecryptedFile",
                                  !.decodeKey = metadata.decryptionKey,
                                  !.calls = outcome.calls,
                                  !.error = outcome.error,
                                  !.threw = outcome.error # "",
                                  !.output = outcome.plaintext]
    /\ CodecUnchanged

NextCodec ==
    \/ \E plaintext \in Plaintexts, keyHex \in HexKeys, iv \in Ivs :
          UploadEncrypted(plaintext, keyHex, iv)
    \/ \E frame \in RawFrames : GatewayServes(frame)
    \/ \E metadata \in DecoderMetadata, responseOk \in BOOLEAN :
          CreateMediaPreviewUrl(metadata, responseOk)
    \/ \E metadata \in DecoderMetadata, responseOk \in BOOLEAN :
          DownloadDecryptedFile(metadata, responseOk)

SpecCodec == Init /\ [][NextCodec]_vars

\* C15, as stated: when currentBlock + blocksAhead exceeds 2^40 - 1,
\* createMediaRelease rejects with the overflow error and no provider,
\* time-lock or contract call precedes or follows the rejection.
OverflowRejectedBeforeAnyCall ==
    (/\ creating # Null
     /\ creating[1].stage # "start"
     /\ WideGreater(WideAdd(creating[1].currentBlock,
                            creating[1].request.blocksAhead),
                    <<WideLimb - 1, WideLimb - 1>>))
        => /\ creating[1].stage = "rejected"
           /\ creating[1].calls = <<>>

\* C15, as the code has it: when currentBlock + blocksAhead exceeds 2^40 - 1,
\* createMediaRelease rejects with the overflow error after the one
\* getBlockNumber read that gives currentBlock; no time-lock, fee, price or
\* contract call precedes the rejection and no call follows it.
OverflowRejectedAfterHeightRead ==
    (/\ creating # Null
     /\ creating[1].stage # "start"
     /\ WideGreater(WideAdd(creating[1].currentBlock,
                            creating[1].request.blocksAhead),
                    <<WideLimb - 1, WideLimb - 1>>))
        => /\ creating[1].stage = "rejected"
           /\ creating[1].error = <<"exceeds uint40 maximum value">>
           /\ creating[1].calls = <<"getBlockNumber">>

\* A request one block ahead read at height 2^40 - 1, rejected.
RejectedAtLastBlock ==
    /\ creating # Null
    /\ creating[1].stage = "rejected"
    /\ creating[1].currentBlock = MAX_UINT40
    /\ creating[1].request.blocksAhead = <<0, 1>>

\* The metadata a request stands for: its key and locator, the optional
\* members that were given, the defaults for the others.
MetadataOf(request) ==
    [filename |-> IF Truthy(request.filename) THEN request.filename[1]
                  ELSE <<"encrypted-file">>,
     size |-> IF request.filesize # Undefined THEN request.filesize[1] ELSE 0,
     type |-> IF Truthy(request.filetype) THEN request.filetype[1]
              ELSE <<"application/octet-stream">>,
     fileCid |-> request.fileCid, decryptionKey |-> request.decryptionKey]

\* C20: for a payload createMediaRelease built from a key, a locator and
\* optional filename, type and size, decryptMetadata returns the same key
\* and locator and the optional members that were given (the defaults for
\* those that were not).
PayloadRoundTrip ==
    (creating # Null /\ creating[1].stage = "shown")
        => decryptedMetadata = <<MetadataOf(creating[1].request)>>

\* A request with the three optional members, decoded.
FullRequestShown ==
    /\ creating # Null
    /\ creating[1].stage = "shown"
    /\ creating[1].request.filesize = Some(5)
    /\ decryptedMetadata # Null
    /\ decryptedMetadata[1].filename = <<"clip.mp4">>
    /\ decryptedMetadata[1].type = <<"video/mp4">>

\* C18: for every plaintext p and 256-bit key k, the decrypt step of
\* createMediaPreviewUrl and of downloadDecryptedFile, given k and the frame
\* encryptBytes(p, k) wrote, yields exactly p.
FrameRoundTrip ==
    (/\ codec.stage = "decoded"
     /\ codec.plaintext # Null
     /\ codec.decodeKey = codec.keyHex
     /\ codec.error \notin {"Missing encrypted CID", "Failed to fetch file"})
        => /\ codec.error = ""
           /\ codec.output = codec.plaintext

\* A two-byte file, encrypted and decoded by the download with the same key.
TwoBytesDownloaded ==
    /\ codec.stage = "decoded"
    /\ codec.decoder = "downloadDecryptedFile"
    /\ codec.plaintext = Some(<<255, 0>>)
    /\ codec.decodeKey = codec.keyHex
    /\ Len(codec.frame) = 1 + 12 + 16 + 2
    /\ codec.frame[1] = 1
    /\ codec.output = Some(<<255, 0>>)

\* C19: a decoder rejects every fetched frame shorter than 1 + 12 + 16 bytes
\* with "Ciphertext too short" and every frame of at least that length whose
\* first byte is not 1 with "Unsupported ciphertext version", the length
\* check first and both before importKey or decrypt is called; no plaintext
\* is produced in either case.
MalformedFramesRejected ==
    (/\ codec.stage = "decoded"
     /\ codec.error \notin {"Missing encrypted CID", "Failed to fetch file"})
        => /\ Len(codec.frame) < 1 + 12 + 16
              => /\ codec.error = "Ciphertext too short"
                 /\ codec.calls = <<"fetch">>
                 /\ codec.output = Null
           /\ (Len(codec.frame) >= 1 + 12 + 16 /\ codec.frame[1] # 1)
              => /\ codec.error = "Unsupported ciphertext version"
                 /\ codec.calls = <<"fetch">>
                 /\ codec.output = Null

\* A frame of 28 bytes whose first byte is 2, rejected for its length.
ShortFrameOfOtherVersion ==
    /\ codec.stage = "decoded"
    /\ Len(codec.frame) = 28
    /\ codec.frame[1] = 2
    /\ codec.error = "Ciphertext too short"

\* The Revealed events the contract has emitted for a request id.
RevealedEventsOf(logs, requestId) ==
    SelectSeq(logs, LAMBDA l : l.name = "Revealed" /\ l.requestId = requestId)

\* C21: Revealed is emitted at most once per requestId; a step taken while
\* the request is unknown or already revealed (a callback for it reverts)
\* leaves its isRevealed, its revealed payload and its Revealed events as
\* they were.
RevealedEmittedOnce ==
    [][\A id \in Ids :
        /\ Len(RevealedEventsOf(chainLogs', id)) <= 1
        /\ (contractReleases[id].creator = ZeroAddress \/ contractReleases[id].isRevealed)
            => /\ contractReleases'[id].isRevealed = contractReleases[id].isRevealed
               /\ contractReleases'[id].revealed = contractReleases[id].revealed
               /\ RevealedEventsOf(chainLogs', id) = RevealedEventsOf(chainLogs, id)]_vars

\* A release revealed in an earlier block: later callbacks for it revert.
RevealedInEarlierBlock ==
    \E id \in Ids :
        /\ contractReleases[id].isRevealed
        /\ Len(RevealedEventsOf(chainLogs, id)) = 1
        /\ height > RevealedEventsOf(chainLogs, id)[1].blockNumber

\* C22: fetchRevealedPayload scans the window from max(0, target - 12) to
\* min(currentBlock, target + 200) when it is given a target block and from
\* max(0, currentBlock - 500) to currentBlock otherwise; every getLogs call
\* of the scan lies inside the window, the first begins at its first block
\* and the last ends at its last block.
ScanStaysInWindow ==
    (scan.pc \in {"chunks", "done"} /\ scan.caller = "fetchRevealedPayload")
        => LET cur == scan.currentBlock
               from == IF scan.targetBlock = Undefined
                       THEN (IF cur - 500 > 0 THEN cur - 500 ELSE 0)
                       ELSE (IF scan.targetBlock[1] - 12 > 0
                             THEN scan.targetBlock[1] - 12 ELSE 0)
               to == IF scan.targetBlock = Undefined THEN cur
                     ELSE (IF cur < scan.targetBlock[1] + 200
                           THEN cur ELSE scan.targetBlock[1] + 200)
               calls == scan.calls
           IN  /\ cur = height
               /\ scan.fromBlock = from
               /\ scan.toBlock = to
               /\ \A i \in 1..Len(calls) : from <= calls[i][1] /\ calls[i][2] <= to
               /\ scan.pc = "done"
                    => calls[1][1] = from /\ calls[Len(calls)][2] = to

\* A scan for target 150 read at height 150: blocks 138 to 150, in two calls.
TargetWindowScanned ==
    /\ scan.pc = "done"
    /\ scan.caller = "fetchRevealedPayload"
    /\ scan.targetBlock = Some(150)
    /\ scan.currentBlock = 150
    /\ scan.calls = <<<<138, 147>>, <<148, 150>>>>

\* C23: the filter fetchReleases builds matches exactly the Created events
\* of the contract whose indexed creator is the connected address: a getLogs
\* call with it over the whole chain returns those events and no others.
CreatedFilterMatchesCreator ==
    GetLogs(CreatedFilter(UserAddress), 0, height)
        = SelectSeq(chainLogs,
                    LAMBDA l : l.name = "Created" /\ l.creator = UserAddress)

\* C24: within a scan, a chunk whose getLogs call failed is asked for again
\* before it is skipped: a returned scan has made more than one call for
\* every chunk whose call rejected.
FailedChunkAskedAgain ==
    (scan.pc = "done") =>
        \A s \in scan.failed :
            Cardinality({i \in 1..Len(scan.calls) : scan.calls[i][1] = s}) > 1

\* The first block of the chunk of getLogsChunked that holds block b.
ChunkStartOf(b) ==
    scan.fromBlock + ((b - scan.fromBlock) \div scan.chunkSize) * scan.chunkSize

\* C25: a chunk whose call fails does not end getLogsChunked: every block of
\* the window from the failed chunk on is still asked for, and the logs
\* returned are those of the chunks that answered, in ascending chunk order.
FailedChunkSkippedOnly ==
    (scan.pc = "done" /\ scan.failed # {}) =>
        /\ \A s \in scan.failed : \A b \in s..scan.toBlock :
              \E i \in 1..Len(scan.calls) :
                  scan.calls[i][1] <= b /\ b <= scan.calls[i][2]
        /\ scan.logs =
              SelectSeq(chainLogs,
                        LAMBDA l : /\ scan.fromBlock <= l.blockNumber
                                   /\ l.blockNumber <= scan.toBlock
                                   /\ LogMatches(l, scan.filter)
                                   /\ ChunkStartOf(l.blockNumber) \notin scan.failed)

\* A scan of blocks 0 to 36 in tens whose third call rejected, whose first
\* two chunks each brought a log and whose fourth chunk was still asked for.
MiddleChunkFailed ==
    /\ scan.pc = "done"
    /\ scan.caller = "getLogsChunked"
    /\ scan.failed = {20}
    /\ scan.calls = <<<<0, 9>>, <<10, 19>>, <<20, 29>>, <<30, 36>>>>
    /\ Len(scan.logs) = 2

-----------------------------------------------------------------------------
(* fetchReleases over the logs a getLogs answer holds, log by log: parseLog  *)
(* returns the event, returns null or throws; metaOf answers or rejects.     *)

\* What happens to one Created log in the map callback of fetchReleases.
\* parse: "ok", "null" (parseLog returns null) or "throws"; meta: what metaOf
\* answered for isRevealed, undefined when the read rejected; data: what
\* fetchRevealedPayload returned.
LogAnswer(n, parse, meta, data) ==
    [log |-> CreatedLog(n, UserAddress, Keccak256(CidOf(n)), TrialUnlock, 0),
     parse |-> parse, meta |-> meta, data |-> data]

AnyLogAnswer(n) ==
    {LogAnswer(n, "null", Undefined, Null), LogAnswer(n, "throws", Undefined, Null),
     LogAnswer(n, "ok", Undefined, Null), LogAnswer(n, "ok", Some(FALSE), Null)}
    \cup {LogAnswer(n, "ok", Some(TRUE), data) : data \in AnyRevealedData(n, TRUE)}

\* The answers of one call: one per log, in log order.
AnyLogAnswers ==
    UNION {{ItemsFrom(f, S) :
               f \in {g \in [S -> UNION {AnyLogAnswer(n) : n \in S}] :
                         \A n \in S : g[n].log.requestId = n}} :
           S \in SUBSET StoreIds}

\* The promise of one log: null, the item, or a rejection ("throws"). A
\* metaOf or fetchRevealedPayload rejection is caught inside the callback.
ReleasePromise(answer, currentBlock) ==
    IF answer.parse = "throws" THEN "throws"
    ELSE IF answer.parse = "null" THEN Null
    ELSE <<ItemRecord(answer.log, currentBlock,
                      answer.meta # Undefined /\ answer.meta[1], answer.data)>>

\* Promise.all(releasePromises): the results, or null when one rejected.
AllPromises(answers, currentBlock) ==
    IF \E i \in 1..Len(answers) : ReleasePromise(answers[i], currentBlock) = "throws"
    THEN Null
    ELSE <<[i \in 1..Len(answers) |-> ReleasePromise(answers[i], currentBlock)]>>

\* releasesDataRaw.filter(Boolean)
RECURSIVE FilterBoolean(_)
FilterBoolean(raw) ==
    IF raw = <<>> THEN <<>>
    ELSE (IF Head(raw) = Null THEN <<>> ELSE <<Head(raw)[1]>>)
         \o FilterBoolean(Tail(raw))

\* A fetchReleases call that has run.
FetchCall(answers, currentBlock, merged) ==
    [pc |-> "fetched", caller |-> "fetchReleases", answers |-> answers,
     currentBlock |-> currentBlock, merged |-> merged]

\* fetchReleases from the getLogs answer to setReleases; a rejection of
\* Promise.all is caught by the inner catch, which only warns.
FetchReleasesOver(answers, currentBlock) ==
    /\ LET raw == AllPromises(answers, currentBlock)
       IN  /\ releases' = IF raw = Null THEN releases
                          ELSE MergeFetched(releases, FilterBoolean(raw[1]))
           /\ scan' = FetchCall(answers, currentBlock, raw # Null)
    /\ UNCHANGED <<height, contractReleases, chainLogs, localStorage, creating,
                   pending, selectedRelease, decryptedMetadata, trial, codec>>

NextItems ==
    \E answers \in AnyLogAnswers, cb \in TrialBlocks : FetchReleasesOver(answers, cb)

SpecItems == Init /\ [][NextItems]_vars

\* C26: in fetchReleases, a failure while one Created log is processed
\* (parseLog failing on it, or its status read rejecting) does not keep the
\* other releases of the same scan out of the store: after the call, every
\* log that parsed has a record in the store.
OtherItemsStillMerged ==
    (scan.pc = "fetched") =>
        \A i \in 1..Len(scan.answers) :
            scan.answers[i].parse = "ok"
                => scan.answers[i].log.requestId \in RequestIds(releases)

-----------------------------------------------------------------------------
(* The loop of fetchRevealedPayload over the logs getLogsChunked returned,   *)
(* for every answer of up to MaxLogs logs a provider can give.               *)

MaxLogs == 3

\* The logs an answer can hold: one parseLog throws on, one of another
\* event, a Revealed log whose parsed payload is missing, and two Revealed
\* logs with a payload.
WalkLogs ==
    {[RevealedLog(1, PayloadOf(1), 0) EXCEPT !.name = "Unparseable"],
     CreatedLog(1, UserAddress, Keccak256(CidOf(1)), TrialUnlock, 0),
     [RevealedLog(1, PayloadOf(1), 0) EXCEPT !.payload = Undefined],
     RevealedLog(1, PayloadOf(1), 0),
     RevealedLog(1, PayloadOf(2), 0)}

\* fetchRevealedPayload(1) at height 0 after its one getLogs call answered.
WalkScan(logs) ==
    [RevealScan(1, Undefined) EXCEPT !.pc = "chunks", !.start = DEFAULT_GETLOGS_CHUNK,
                                     !.calls = <<<<0, 0>>>>, !.logs = logs]

InitWalk ==
    /\ scan \in {WalkScan(logs) : logs \in UNION {[1..n -> WalkLogs] : n \in 0..MaxLogs}}
    /\ height = 0
    /\ contractReleases = [i \in Ids |-> ZeroRelease]
    /\ chainLogs = <<>>
    /\ localStorage = [tblock |-> Undefined, lastBlock |-> Undefined, rel |-> <<>>]
    /\ creating = Null
    /\ releases = <<>>
    /\ pending = {}
    /\ selectedRelease = Null
    /\ decryptedMetadata = Null
    /\ trial = NoTrial
    /\ codec = NoCodec

NextWalk == GetLogsChunkedReturn

SpecWalk == InitWalk /\ [][NextWalk]_vars

\* C27: in fetchRevealedPayload, a fetched log that fails to parse, parses
\* to another event or carries no payload is skipped and does not end the
\* scan: the result is the payload of the first Revealed log with a payload
\* in the fetched sequence, wherever it stands, and null when there is none.
BadLogsSkipped ==
    (scan.pc = "done" /\ scan.caller = "fetchRevealedPayload") =>
        LET valid == {i \in 1..Len(scan.logs) :
                         /\ scan.logs[i].name = "Revealed"
                         /\ scan.logs[i].payload # Undefined}
        IN  IF valid = {} THEN scan.result = Null
            ELSE \E i \in valid :
                    /\ \A j \in valid : i <= j
                    /\ scan.result = scan.logs[i].payload

\* Three fetched logs: one that does not parse, one without payload, then a
\* Revealed log whose payload is returned.
ThirdLogReturned ==
    /\ scan.pc = "done"
    /\ Len(scan.logs) = 3
    /\ scan.logs[1].name = "Unparseable"
    /\ scan.logs[2].name = "Revealed" /\ scan.logs[2].payload = Undefined
    /\ scan.logs[3] = RevealedLog(1, PayloadOf(2), 0)
    /\ scan.result = Some(PayloadOf(2))

-----------------------------------------------------------------------------
(* The viewer over every kind of revealed payload: the JSON object with key  *)
(* and locator, JSON objects that lack one of them, and a bare key.          *)

\* The payloads a Revealed event of request id n can carry.
AnyPayload(n) ==
    {PayloadOf(n),
     Hexlify(ToUtf8Bytes(JsonStringify(<<<<"k", KeyOf(n)>>>>))),
     Hexlify(ToUtf8Bytes(JsonStringify(<<<<"c", CidOf(n)>>>>))),
     Hexlify(ToUtf8Bytes(JsonStringify(<<>>))),
     Hexlify(ToUtf8Bytes(PlainText(KeyOf(n))))}

\* What getReleaseById can return for a revealed request id n.
AnyPayloadRecord(n) ==
    {ReleaseRecord(n, info, cb, Some(payload)) :
        info \in {m \in AnyMeta(n) : m.isRevealed}, cb \in TrialBlocks,
        payload \in AnyPayload(n)}

NextPayload ==
    \/ \E rel \in AnyEntries : LoadEntries(rel)
    \/ \E n \in StoreIds : \E r \in AnyPayloadRecord(n) :
           SetReleasesWith(PendingCheck(n, r))
    \/ \E i \in 1..MaxId : HandleReleaseSelect(i)

SpecPayload == Init /\ [][NextPayload]_vars

\* C28: decryptMetadata returns the whole payload text as a bare key with an
\* empty locator exactly when the text is not valid JSON; a payload that is
\* valid JSON is never returned as a bare key.
BareKeyOnlyForNonJson ==
    (/\ selectedRelease # Null
     /\ selectedRelease[1].revealed # Undefined
     /\ decryptedMetadata # Null)
        => LET text == ToUtf8String(selectedRelease[1].revealed[1])
           IN  (/\ decryptedMetadata[1].fileCid = <<>>
                /\ decryptedMetadata[1].decryptionKey = text)
                   <=> text[1] # "json"

-----------------------------------------------------------------------------
(* The periodic driver of the viewer page: the interval callback that reads  *)
(* the countdown of every release and starts the status checks.              *)

avgBlockSeconds == 2

\* The wall-clock time, in milliseconds, handleCreate stamps an entry with.
CreatedAtMs == 1000

\* The release_<id> entry getTimeRemaining reads: none, or the one
\* handleCreate wrote, with its createdAt stamp.
CreatedStamp ==
    [createdAt |-> CreatedAtMs, targetBlock |-> TrialUnlock, createdAtBlock |-> 0]
AnyStamp == {Undefined, Some(CreatedStamp)}

\* The estimated unlock time of a stamped entry.
EstimatedUnlockTime(stored) ==
    stored.createdAt
        + (stored.targetBlock - stored.createdAtBlock) * avgBlockSeconds * 1000

\* The times a tick can happen at: before and at the estimated unlock time.
TickTimes == {CreatedAtMs, EstimatedUnlockTime(CreatedStamp)}

\* getTimeRemaining(release) at time now with the entry stored: "Unlocked!",
\* "countdown" for an hh:mm:ss text, "Unknown", or "throws": unlockAtBlock is
\* a bigint and currentBlock a number, and their difference is a TypeError.
GetTimeRemaining(release, stored, now) ==
    IF stored # Undefined /\ stored[1].createdAt # 0 /\ stored[1].targetBlock # 0
    THEN IF now >= EstimatedUnlockTime(stored[1]) THEN "Unlocked!" ELSE "countdown"
    ELSE IF \/ release.currentBlock = Undefined
            \/ release.currentBlock[1] = 0
            \/ release.unlockAtBlock = 0
         THEN "Unknown"
         ELSE "throws"

\* releases.forEach of the interval callback from index i on: the request
\* ids checkReleaseStatus is called with. An exception ends the loop.
RECURSIVE AutoChecked(_, _, _)
AutoChecked(i, stamps, now) ==
    IF i > Len(releases) THEN {}
    ELSE LET release == releases[i]
             timeRemaining == GetTimeRemaining(release, stamps[release.requestId], now)
         IN  IF timeRemaining = "throws" THEN {}
             ELSE (IF timeRemaining = "Unlocked!" /\ ~release.isRevealed
                   THEN {release.requestId} ELSE {})
                  \cup AutoChecked(i + 1, stamps, now)

\* One tick of the interval at time now; the calls it starts resolve later.
Tick(stamps, now) ==
    /\ scan' = [pc |-> "ticked", caller |-> "setInterval", now |-> now,
                stamps |-> stamps, checked |-> AutoChecked(1, stamps, now)]
    /\ UNCHANGED <<height, contractReleases, chainLogs, localStorage, creating,
                   releases, pending, selectedRelease, decryptedMetadata, trial,
                   codec>>

NextTick ==
    \/ \E rel \in AnyEntries : LoadEntries(rel)
    \/ \E n \in StoreIds : \E r \in AnyReleaseRecord(n) :
           SetReleasesWith(PendingCheck(n, r))
    \/ \E stamps \in [StoreIds -> AnyStamp], now \in TickTimes : Tick(stamps, now)

SpecTick == Init /\ [][NextTick]_vars

\* C29: on every tick, checkReleaseStatus is called once for each release
\* of the store with isRevealed = false and for no release with
\* isRevealed = true.
TickChecksEveryUnrevealed ==
    [][(scan'.pc = "ticked" /\ scan' # scan)
          => scan'.checked =
                {releases[i].requestId :
                    i \in {j \in 1..Len(releases) : ~releases[j].isRevealed}}]_vars

\* C32: getTimeRemaining returns "Unlocked!" exactly when the remainder of
\* the strategy in use is zero or negative, and a countdown text otherwise:
\* with a stamped entry, when now >= createdAt + (targetBlock -
\* createdAtBlock) * avgBlockSeconds * 1000; without one and with a known
\* currentBlock, when unlockAtBlock - currentBlock <= 0.
UnlockedExactlyAtZero ==
    scan.pc = "ticked" =>
        \A i \in 1..Len(releases) :
            LET release == releases[i]
                stored == scan.stamps[release.requestId]
                timeRemaining == GetTimeRemaining(release, stored, scan.now)
            IN  IF stored # Undefined
                THEN timeRemaining =
                        IF scan.now >= stored[1].createdAt
                               + (stored[1].targetBlock - stored[1].createdAtBlock)
                                     * avgBlockSeconds * 1000
                        THEN "Unlocked!" ELSE "countdown"
                ELSE release.currentBlock # Undefined =>
                        timeRemaining =
                            IF release.unlockAtBlock - release.currentBlock[1] <= 0
                            THEN "Unlocked!" ELSE "countdown"

-----------------------------------------------------------------------------
(* The three calls that write the store, each from the answers of the        *)
(* provider to the end of the call, rejections included. When every getLogs  *)
(* call of fetchReleases rejects, getLogsChunked skips the chunks and         *)
(* returns no log: FetchReleasesOver with no answers.                         *)

\* A call that ended in one of its catch blocks without calling setReleases.
FailedCall(caller) == [pc |-> "failed", caller |-> caller]

\* A call that reached its setReleases.
ReturnedCall(caller) == [pc |-> "returned", caller |-> caller]

FrameUnchanged ==
    UNCHANGED <<height, contractReleases, chainLogs, localStorage, creating,
                pending, selectedRelease, decryptedMetadata, trial, codec>>

\* fetchReleases when getBlockNumber rejects on both attempts of withRetry:
\* the outer catch sets the error text.
FetchReleasesDown ==
    /\ releases' = releases
    /\ scan' = FailedCall("fetchReleases")
    /\ FrameUnchanged

\* checkReleaseStatus(n): release is what getReleaseById returned, null when
\* metaOf or getBlockNumber rejected.
CheckReleaseStatusOver(n, release) ==
    /\ releases' = IF release = Null THEN releases
                   ELSE MergeChecked(releases, n, release[1])
    /\ scan' = IF release = Null THEN FailedCall("checkReleaseStatus")
               ELSE ReturnedCall("checkReleaseStatus")
    /\ FrameUnchanged

\* updateCurrentBlock: currentBlock is what getBlockNumber answered,
\* undefined when it rejected.
UpdateCurrentBlockOver(currentBlock) ==
    /\ releases' = IF currentBlock = Undefined THEN releases
                   ELSE MergeBlock(releases, currentBlock[1])
    /\ scan' = IF currentBlock = Undefined THEN FailedCall("updateCurrentBlock")
               ELSE ReturnedCall("updateCurrentBlock")
    /\ FrameUnchanged

NextFrame ==
    \/ \E rel \in AnyEntries : LoadEntries(rel)
    \/ FetchReleasesDown
    \/ \E answers \in AnyLogAnswers, cb \in TrialBlocks : FetchReleasesOver(answers, cb)
    \/ \E n \in StoreIds :
           \E release \in {Null} \cup {<<r>> : r \in AnyReleaseRecord(n)} :
               CheckReleaseStatusOver(n, release)
    \/ \E currentBlock \in {Undefined} \cup {Some(cb) : cb \in TrialBlocks} :
           UpdateCurrentBlockOver(currentBlock)

SpecFrame == Init /\ [][NextFrame]_vars

\* C30: a failed call leaves the releases list as it was before the call:
\* fetchReleases when getBlockNumber rejects or when the log fetch rejects
\* (no log is returned), checkReleaseStatus when the contract read of
\* getReleaseById rejects, updateCurrentBlock when getBlockNumber rejects.
FailedCallKeepsReleases ==
    [][(/\ scan' # scan
        /\ \/ scan'.pc = "failed"
           \/ scan'.pc = "fetched" /\ scan'.answers = <<>>)
          => releases' = releases]_vars

\* A fetchReleases call that got no log and left a store of two releases.
EmptyFetchOverTwoReleases ==
    /\ scan.pc = "fetched"
    /\ scan.answers = <<>>
    /\ Len(releases) = 2

-----------------------------------------------------------------------------
(* The creation page alone: one creation, with a lock of one block or of one *)
(* block more than fetchReleases scans back, while the chain grows.          *)

LockLengths == {1, CREATED_SCAN_BACK + 1}

NextHint ==
    \/ \E d \in Jumps : AdvanceChain(d)
    \/ \E blocksAhead \in LockLengths : CreateMediaReleaseStart(blocksAhead)
    \/ CreateReleaseWithDirectFunding
    \/ HandleCreate

SpecHint == Init /\ [][NextHint]_vars

\* C34: the block range fetchReleases scans, [tblock - 10, tblock] with
\* tblock as handleCreate last wrote it, contains the block of the Created
\* event of every release that has a local entry.
CreatedBlockInScannedRange ==
    \A k \in DOMAIN localStorage.rel :
        \A i \in 1..Len(chainLogs) :
            (chainLogs[i].name = "Created" /\ chainLogs[i].requestId = k)
                => chainLogs[i].blockNumber
                       \in Max(0, TBlockHint - CREATED_SCAN_BACK)..TBlockHint

\* C35: a reveal scan for a release whose unlockAtBlock the caller knows runs
\* over the window around that block: the payload getReleaseById and
\* fetchReleases come back with is the one fetchRevealedPayload returns when
\* it is given unlockAtBlock as its target.
KnownUnlockBlockIsTheHint ==
    /\ \A id \in Ids :
           LET releaseInfo == MetaOf(id)
               hinted == FetchRevealedPayload(id, Some(releaseInfo.unlockAtBlock), {})
           IN  releaseInfo.isRevealed =>
                   GetReleaseById(id, {}).revealed
                       = ReleaseRecord(id, releaseInfo, height, hinted).revealed
    /\ \A i \in 1..Len(chainLogs) :
           LET log == chainLogs[i]
               hinted == FetchRevealedPayload(log.requestId, Some(log.unlockAtBlock), {})
           IN  (log.name = "Created" /\ MetaOf(log.requestId).isRevealed) =>
                   FetchedItem(log, height, {}).revealed
                       = ItemRecord(log, height, TRUE, hinted).revealed

\* C36: on a chain whose height never decreases, the currentBlock stored in
\* a release never decreases, whatever the order in which updateCurrentBlock,
\* fetchReleases and checkReleaseStatus calls complete.
CurrentBlockNeverDecreases ==
    [][\A i \in 1..Len(releases) : \A j \in 1..Len(releases') :
          (/\ releases[i].requestId = releases'[j].requestId
           /\ releases[i].currentBlock # Undefined)
              => /\ releases'[j].currentBlock # Undefined
                 /\ releases'[j].currentBlock[1] >= releases[i].currentBlock[1]]_vars

\* C37: every release of the store whose currentBlock is defined has
\* isUnlocked = (currentBlock >= unlockAtBlock).
IsUnlockedFollowsCurrentBlock ==
    \A i \in 1..Len(releases) :
        releases[i].currentBlock # Undefined =>
            releases[i].isUnlocked
                = (releases[i].currentBlock[1] >= releases[i].unlockAtBlock)

\* C39: for every release created through createMediaRelease, the
\* fileCidHash the contract holds is keccak256 of the locator c of the
\* time-locked payload: once the payload is revealed, decryptMetadata given
\* the release passes its hash check and returns that locator.
CreatedHashMatchesLocator ==
    \A id \in Ids :
        contractReleases[id].isRevealed =>
            LET payload == contractReleases[id].revealed[1]
                metadata == DecryptMetadata(payload, Some(MetaOf(id)))
            IN  /\ Keccak256(LocatorOf(payload)) = contractReleases[id].fileCidHash
                /\ metadata # Null
                /\ metadata[1].fileCid = LocatorOf(payload)

\* Release 1, created by createMediaRelease and revealed, read by the viewer.
RevealedLocatorVerified ==
    /\ contractReleases[1].isRevealed
    /\ contractReleases[1].fileCidHash = Keccak256(CidOf(1))
    /\ DecryptMetadata(contractReleases[1].revealed[1], Some(MetaOf(1))) # Null
    /\ Len(releases) = 1
    /\ releases[1].revealed = contractReleases[1].revealed

-----------------------------------------------------------------------------
(* The polling effect of the hook: it loads the local entries, starts        *)
(* updateCurrentBlock once and on every firing of blockInterval, and its     *)
(* cleanup runs when the address goes away while the hook stays mounted.     *)

\* The effect after its body ran: inFlight counts the updateCurrentBlock
\* calls that wait for getBlockNumber.
EffectState(cancelled, interval, inFlight) ==
    [pc |-> "effect", caller |-> "useEffect", cancelled |-> cancelled,
     interval |-> interval, inFlight |-> inFlight]

\* The body of the effect with the entries rel in localStorage:
\* loadFromLocalStorage(), updateCurrentBlock(), setInterval.
EffectRun(rel) ==
    /\ scan = ScanIdle
    /\ releases' = LoadedReleases(releases, rel)
    /\ scan' = EffectState(FALSE, TRUE, 1)
    /\ FrameUnchanged

\* blockInterval fires: updateCurrentBlock returns at once when cancelled,
\* else it calls getBlockNumber.
IntervalFires ==
    /\ scan.pc = "effect"
    /\ scan.interval
    /\ scan.inFlight < MaxPending
    /\ scan' = IF scan.cancelled THEN scan
               ELSE [scan EXCEPT !.inFlight = @ + 1]
    /\ releases' = releases
    /\ FrameUnchanged

\* getBlockNumber of a waiting updateCurrentBlock call answers: the call
\* goes on to its setReleases.
BlockNumberResolves ==
    /\ scan.pc = "effect"
    /\ scan.inFlight > 0
    /\ releases' = MergeBlock(releases, height)
    /\ scan' = [scan EXCEPT !.inFlight = @ - 1]
    /\ FrameUnchanged

\* getBlockNumber of a waiting call rejects: the catch block warns.
BlockNumberRejects ==
    /\ scan.pc = "effect"
    /\ scan.inFlight > 0
    /\ releases' = releases
    /\ scan' = [scan EXCEPT !.inFlight = @ - 1]
    /\ FrameUnchanged

\* The cleanup of the effect.
EffectCleanup ==
    /\ scan.pc = "effect"
    /\ ~scan.cancelled
    /\ releases' = releases
    /\ scan' = [scan EXCEPT !.cancelled = TRUE, !.interval = FALSE]
    /\ FrameUnchanged

NextEffect ==
    \/ \E d \in Jumps : AdvanceChain(d)
    \/ \E rel \in AnyEntries : EffectRun(rel)
    \/ IntervalFires
    \/ BlockNumberResolves
    \/ BlockNumberRejects
    \/ EffectCleanup

SpecEffect == Init /\ [][NextEffect]_vars

\* C31: once the polling effect has been cleaned up, an updateCurrentBlock
\* call that was in flight at the cleanup ends without changing the store.
NoWriteAfterCleanup ==
    [][(/\ scan.pc = "effect"
        /\ scan.cancelled
        /\ scan'.inFlight < scan.inFlight)
          => releases' = releases]_vars

-----------------------------------------------------------------------------
(* withRetry alone, one await per step: fn answers with a value or rejects   *)
(* with an error, and the timer of the delay fires.                          *)

MaxAttempts == 3

\* The values fn can resolve to, the errors it can reject with, the delays.
FnValues == {"v1", "v2"}
FnErrors == {"e1", "e2"}
Delays == {0, 500}

\* One await of the call: of fn(), or of the timer promise.
FnAwait == [op |-> "fn", ms |-> 0]
TimerAwait(delayMs) == [op |-> "timer", ms |-> delayMs]

\* The catch block sleeps only when another attempt follows.
SleepsAfterEveryFailure(i, attempts) == TRUE
SleepsBeforeNextAttempt(i, attempts) == i < attempts - 1

\* The loop test after round i: another round, or `throw last`.
LoopFrom(call, i) ==
    IF i < call.attempts
    THEN [call EXCEPT !.pc = "fn", !.i = i]
    ELSE [call EXCEPT !.pc = "threw", !.i = i, !.result = call.last]

\* withRetry(fn, attempts, delayMs) is called.
WithRetry(attempts, delayMs) ==
    /\ scan = ScanIdle
    /\ scan' = LoopFrom([pc |-> "fn", caller |-> "withRetry", attempts |-> attempts,
                         delayMs |-> delayMs, i |-> 0, last |-> Undefined,
                         awaited |-> <<>>, errors |-> <<>>, result |-> Null], 0)
    /\ releases' = releases
    /\ FrameUnchanged

\* fn() resolves: `return await fn()`.
FnResolves(v) ==
    /\ scan.pc = "fn"
    /\ scan' = [scan EXCEPT !.pc = "returned", !.awaited = Append(@, FnAwait),
                            !.result = Some(v)]
    /\ releases' = releases
    /\ FrameUnchanged

\* fn() rejects with e: the catch block.
FnRejects(e) ==
    /\ scan.pc = "fn"
    /\ LET caught == [scan EXCEPT !.awaited = Append(@, FnAwait),
                                  !.errors = Append(@, e), !.last = Some(e)]
       IN  scan' = IF SleepsBeforeNextAttempt(scan.i, scan.attempts)
                   THEN [caught EXCEPT !.pc = "sleep"]
                   ELSE LoopFrom(caught, scan.i + 1)
    /\ releases' = releases
    /\ FrameUnchanged

\* The timer of the delay fires: the next round of the loop.
TimerFires ==
    /\ scan.pc = "sleep"
    /\ scan' = LoopFrom([scan EXCEPT !.awaited = Append(@, TimerAwait(scan.delayMs))],
                        scan.i + 1)
    /\ releases' = releases
    /\ FrameUnchanged

FnSettles == (\E v \in FnValues : FnResolves(v)) \/ (\E e \in FnErrors : FnRejects(e))

NextRetry ==
    \/ \E attempts \in 0..MaxAttempts, delayMs \in Delays : WithRetry(attempts, delayMs)
    \/ \E v \in FnValues : FnResolves(v)
    \/ \E e \in FnErrors : FnRejects(e)
    \/ TimerFires

\* Every promise withRetry awaits settles: fn answers or rejects, the timer fires.
SpecRetry == Init /\ [][NextRetry]_vars /\ WF_vars(FnSettles) /\ WF_vars(TimerFires)

\* The number of fn() calls among the awaits of a call.
FnCalls(awaited) == Cardinality({k \in 1..Len(awaited) : awaited[k].op = "fn"})

\* What holds of a call at every step: fn is called at most `attempts` times,
\* the awaits alternate between fn and a timer of delayMs, starting with fn;
\* a call that returned returns the value of its last fn() call, the only one
\* that did not reject; a call that threw has called fn `attempts` times, has
\* not slept after the last failure, and throws the last error.
RetryBudgetKept ==
    scan.pc \in {"fn", "sleep", "returned", "threw"} =>
        /\ FnCalls(scan.awaited) <= scan.attempts
        /\ \A k \in 1..Len(scan.awaited) :
               scan.awaited[k] = IF k % 2 = 1 THEN FnAwait ELSE TimerAwait(scan.delayMs)
        /\ scan.pc = "returned" =>
               /\ scan.result # Null
               /\ scan.awaited[Len(scan.awaited)] = FnAwait
               /\ Len(scan.errors) = FnCalls(scan.awaited) - 1
        /\ scan.pc = "threw" =>
               /\ FnCalls(scan.awaited) = scan.attempts
               /\ Len(scan.errors) = scan.attempts
               /\ scan.attempts > 0 =>
                      /\ scan.awaited[Len(scan.awaited)] = FnAwait
                      /\ scan.result = Some(scan.errors[Len(scan.errors)])

\* C33: withRetry(fn, attempts, delayMs) terminates, having called fn at most
\* `attempts` times: it returns the first successful result without another
\* call, waits delayMs only between two attempts, and after `attempts`
\* failures throws the last error.
WithRetryTerminates ==
    /\ []RetryBudgetKept
    /\ (scan.pc \in {"fn", "sleep"}) ~> (scan.pc \in {"returned", "threw"})

\* A call with three attempts that threw the error of the third.
ThirdFailureThrown ==
    /\ scan.pc = "threw"
    /\ scan.attempts = 3
    /\ scan.errors = <<"e1", "e1", "e2">>
    /\ scan.result = Some("e2")
    /\ Len(scan.awaited) = 5

-----------------------------------------------------------------------------
(* handleReleaseSelect in two steps: the handler up to its await of          *)
(* decryptMetadata, and the rest of it when that promise resolves. Calls     *)
(* that wait are in `pending`; their promises resolve in any order.          *)

\* A handleReleaseSelect(release) call that awaits decryptMetadata.
PendingSelect(release) ==
    [op |-> "select", requestId |-> release.requestId, items |-> <<release>>,
     currentBlock |-> 0]

\* handleReleaseSelect(release) up to the await: the two setters, then the
\* decryptMetadata call for a revealed release.
HandleReleaseSelectStart(i) ==
    /\ i \in 1..Len(releases)
    /\ Cardinality(pending) < MaxPending
    /\ selectedRelease' = <<releases[i]>>
    /\ decryptedMetadata' = Null
    /\ pending' = IF releases[i].isRevealed /\ releases[i].revealed # Undefined
                  THEN pending \cup {PendingSelect(releases[i])}
                  ELSE pending
    /\ UNCHANGED <<height, contractReleases, chainLogs, localStorage, creating,
                   releases, scan, trial, codec>>

\* The decryptMetadata promise of the call p resolves: setDecryptedMetadata.
DecryptMetadataResolves(p) ==
    /\ p \in pending
    /\ p.op = "select"
    /\ decryptedMetadata' = SelectMetadata(p.items[1])
    /\ pending' = pending \ {p}
    /\ UNCHANGED <<height, contractReleases, chainLogs, localStorage, creating,
                   releases, selectedRelease, scan, trial, codec>>

NextSelect ==
    \/ \E rel \in AnyEntries : LoadEntries(rel)
    \/ \E n \in StoreIds : \E r \in AnyReleaseRecord(n) :
           SetReleasesWith(PendingCheck(n, r))
    \/ \E i \in 1..MaxId : HandleReleaseSelectStart(i)
    \/ \E p \in pending : DecryptMetadataResolves(p)

SpecSelect == Init /\ [][NextSelect]_vars

-----------------------------------------------------------------------------
(* getLogsChunked with every chunk size the configuration can give, zero     *)
(* included: Number(NEXT_PUBLIC_GETLOGS_CHUNK) for a string of digits.       *)

\* One turn of the for loop: the getLogs call answers or rejects, and start
\* moves on by chunkSize.
LoopTurn(rejects) ==
    /\ scan.pc = "chunks"
    /\ scan.start <= scan.toBlock
    /\ LET end == ChunkEnd(scan.start, scan.chunkSize, scan.toBlock)
           chunkLogs == IF rejects THEN <<>>
                        ELSE GetLogs(scan.filter, scan.start, end)
       IN  scan' = [scan EXCEPT !.rejected = @ \/ rejects,
                                !.oddCalls = ~@,
                                !.logs = PushLogs(@, chunkLogs),
                                !.start = @ + scan.chunkSize]
    /\ releases' = releases
    /\ FrameUnchanged

\* The calls: oddCalls tells whether the number of getLogs calls made so
\* far is odd.
ConfiguredChunkScans ==
    {[pc |-> "chunks", caller |-> "getLogsChunked", filter |-> AnyLogFilter,
      chunkSize |-> c, fromBlock |-> from, toBlock |-> from + n - 1,
      start |-> from, oddCalls |-> FALSE, rejected |-> FALSE, logs |-> <<>>,
      result |-> Null] :
        from \in 0..MaxFrom, n \in 1..MaxRange, c \in 0..MaxChunk}

InitChunk ==
    /\ scan \in ConfiguredChunkScans
    /\ height = scan.toBlock
    /\ \/ /\ contractReleases = [i \in Ids |-> ZeroRelease]
          /\ chainLogs = <<>>
       \/ \E u \in ScanUnlocks :
             /\ u <= height
             /\ contractReleases =
                    [i \in Ids |-> IF i = 1 THEN RevealedRelease(u) ELSE ZeroRelease]
             /\ chainLogs = RevealedChain(u)
    /\ localStorage = [tblock |-> Undefined, lastBlock |-> Undefined, rel |-> <<>>]
    /\ creating = Null
    /\ releases = <<>>
    /\ pending = {}
    /\ selectedRelease = Null
    /\ decryptedMetadata = Null
    /\ trial = NoTrial
    /\ codec = NoCodec

NextChunk ==
    \/ \E rejects \in BOOLEAN : LoopTurn(rejects)
    \/ GetLogsChunkedReturn

\* Every getLogs call settles, and the loop goes on when it has.
SpecChunk == InitChunk /\ [][NextChunk]_vars /\ WF_vars(NextChunk)

\* C40: getLogsChunked terminates for every window [fromBlock, toBlock] and
\* every chunk size 0, 1, 2, .. the configuration can supply.
GetLogsChunkedTerminates == <>(scan.pc = "done")

====
